---- MODULE Spec2Model ----
(***************************************************************************)
(* Order lifecycle state machine, transmission gate, fill disambiguation   *)
(* and reconciliation of MTraderBroker (mt5broker.py) together with the    *)
(* command workers and the transaction dispatch of MTraderStore            *)
(* (mt5store.py) and the comment parser of Adapter (adapter.py).           *)
(*                                                                         *)
(* Every handler is written as an operator from a state record to a state  *)
(* record, so that the nested calls of the code (_cancel -> _bracketize -> *)
(* _cancel ..., _submit -> _submit ...) are followed call by call.  The    *)
(* field err of the record is set when the code raises; every operator     *)
(* passes a raised state through unchanged, which is how an uncaught       *)
(* exception leaves the registries as they were at the raise.              *)
(***************************************************************************)
EXTENDS Integers, Sequences, FiniteSets, TLC

(***************************************************************************)
(* Bounds of the model.                                                    *)
(***************************************************************************)
MaxEvents == 2      \* transactions delivered by the streaming socket
MaxOcoEvents == 2   \* the same, for the strategies with three oco orders
MaxRebuildEvents == 1   \* the same, for the sessions that reconcile
MaxCallEvents == 2  \* the same, for the whole runs
MaxRaceEvents == 2  \* the same, next to a reconciliation in progress
MaxRef == 12        \* the largest order ref a tag of the snapshot carries
MaxVol == 2         \* volumes 1..MaxVol; the strategy trades MaxVol lots
MaxPrice == 3       \* price ticks 1..MaxPrice

Prices == 1..MaxPrice
Sym == "EURUSD"

VARIABLES
    ord,            \* every Order object ever constructed, by creation index
    refbasis,       \* Order.refbasis: the next value of the ref counter
    orders,         \* broker.orders: ref -> order object
    brackets,       \* broker.brackets: parent ref -> list of order objects
    opending,       \* broker.opending: parent ref -> orders awaiting transmission
    ocos,           \* broker._ocos: ref -> ref of the oco group
    ocol,           \* broker._ocol: group ref -> list of member refs
    notifs,         \* broker.notifs: cloned orders (ref, status) and tick marks
    positions,      \* broker.positions: symbol -> (size, price)
    rebuild,        \* broker.p.rebuild
    o_orders,       \* store._orders: ref -> remote id
    o_ordersrev,    \* store._ordersrev: remote id -> ref
    o_orders_type,  \* store._orders_type: ref -> remote order type
    q_ordercreate,  \* store.q_ordercreate
    q_orderclose,   \* store.q_orderclose
    o_notifs,       \* store.notifs
    cancel_flag,    \* store._cancel_flag
    nbalance,       \* BALANCE requests sent by store.get_balance
    threads,        \* which worker threads are still running
    nextOid,        \* the terminal's next order id
    evcount,        \* transactions delivered so far
    script,         \* the calls the strategy makes, in order
    pc,             \* the strategy's next call
    handles,        \* the orders buy and sell returned to the strategy
    snapshot,       \* what the terminal answers to POSITIONS and ORDERS
    inlive,         \* where the main thread stands inside broker.live
    got,            \* what get_notification has returned, call by call
    sent            \* the command _t_order_create holds between its statements

vars == <<ord, refbasis, orders, brackets, opending, ocos, ocol, notifs,
          positions, rebuild, o_orders, o_ordersrev, o_orders_type,
          q_ordercreate, q_orderclose, o_notifs, cancel_flag, nbalance,
          threads, nextOid, evcount, script, pc, handles, snapshot,
          inlive, got, sent>>

None == "None"
EmptyMap == [x \in {} |-> None]

(***************************************************************************)
(* dict helpers                                                            *)
(***************************************************************************)
Put(f, k, v) == [x \in DOMAIN f \cup {k} |-> IF x = k THEN v ELSE f[x]]
Del(f, k) == [x \in DOMAIN f \ {k} |-> f[x]]
Get(f, k, d) == IF k \in DOMAIN f THEN f[k] ELSE d
Values(f) == {f[x] : x \in DOMAIN f}

\* Python's None where a cloned order is expected: the mark MTraderBroker.next
\* puts on the notification queue, and what get_notification returns for it
Mark == [ref |-> 0, status |-> None]

(***************************************************************************)
(* The state of broker and store as one record, and its write-back.        *)
(***************************************************************************)
S ==
    [ord |-> ord, refbasis |-> refbasis, orders |-> orders,
     brackets |-> brackets, opending |-> opending, ocos |-> ocos,
     ocol |-> ocol, notifs |-> notifs, positions |-> positions,
     rebuild |-> rebuild, o_orders |-> o_orders, o_ordersrev |-> o_ordersrev,
     o_orders_type |-> o_orders_type, q_ordercreate |-> q_ordercreate,
     q_orderclose |-> q_orderclose, o_notifs |-> o_notifs,
     cancel_flag |-> cancel_flag, nbalance |-> nbalance, err |-> FALSE,
     ret |-> Mark]

Becomes(s) ==
    /\ ord' = s.ord
    /\ refbasis' = s.refbasis
    /\ orders' = s.orders
    /\ brackets' = s.brackets
    /\ opending' = s.opending
    /\ ocos' = s.ocos
    /\ ocol' = s.ocol
    /\ notifs' = s.notifs
    /\ positions' = s.positions
    /\ rebuild' = s.rebuild
    /\ o_orders' = s.o_orders
    /\ o_ordersrev' = s.o_ordersrev
    /\ o_orders_type' = s.o_orders_type
    /\ q_ordercreate' = s.q_ordercreate
    /\ q_orderclose' = s.q_orderclose
    /\ o_notifs' = s.o_notifs
    /\ cancel_flag' = s.cancel_flag
    /\ nbalance' = s.nbalance

Raise(s) == [s EXCEPT !.err = TRUE]

(***************************************************************************)
(* backtrader.Order, as far as the broker uses it.                         *)
(***************************************************************************)
AliveStatus == {"Created", "Submitted", "Partial", "Accepted"}
alive(o) == o.status \in AliveStatus

\* Order.__init__: draws the ref from Order.refbasis; a sell order keeps its
\* size negated; a child order is inactive until activated.
NewOrder(s, ordtype, size, price, exectype, parent, oco, transmit) ==
    LET sz == IF ordtype = "Buy" THEN size ELSE -size
        o == [ref |-> s.refbasis, ordtype |-> ordtype, size |-> sz,
              price |-> price, exectype |-> exectype, parent |-> parent,
              oco |-> oco, transmit |-> transmit, status |-> "Created",
              remsize |-> sz, exsize |-> 0, pnl |-> 0,
              active |-> (parent = 0)]
    IN [s EXCEPT !.ord = Append(@, o), !.refbasis = @ + 1]

SetStatus(s, i, st) == [s EXCEPT !.ord[i].status = st]

\* Order.reject: keeps an already Rejected order as it is.
reject(s, i) ==
    IF s.ord[i].status = "Rejected" THEN s ELSE SetStatus(s, i, "Rejected")

\* Order.expire: a Market order never expires; any other order expires only
\* when its validity date has passed (due).
expire(s, i, due) ==
    IF s.ord[i].exectype = "Market" THEN s
    ELSE IF due THEN SetStatus(s, i, "Expired") ELSE s

\* Order.execute: nothing for size 0, otherwise the bit is accumulated.
execute(s, i, size, pnl) ==
    IF size = 0 THEN s
    ELSE [s EXCEPT !.ord[i].remsize = @ - size, !.ord[i].exsize = @ + size,
                   !.ord[i].pnl = @ + pnl]

\* Position.update: net size and volume-weighted average price.
PosUpdate(p, size, price) ==
    LET nsize == p.size + size IN
    IF nsize = 0 THEN [size |-> 0, price |-> 0]
    ELSE IF p.size = 0 THEN [size |-> nsize, price |-> price]
    ELSE IF (p.size > 0) = (size > 0)
        THEN [size |-> nsize,
              price |-> (p.price * p.size + size * price) \div nsize]
    ELSE IF (p.size > 0) = (nsize > 0) THEN [size |-> nsize, price |-> p.price]
    ELSE [size |-> nsize, price |-> price]

\* the parent's ref, or the order's own: getattr(order.parent, "ref", order.ref)
ParentRef(s, i) ==
    IF s.ord[i].parent # 0 THEN s.ord[s.ord[i].parent].ref ELSE s.ord[i].ref

(***************************************************************************)
(* MTraderStore: notifications, balance, cancel requests                   *)
(***************************************************************************)
put_notification(s, msg) == [s EXCEPT !.o_notifs = Append(@, msg)]

\* get_balance: one BALANCE request; a transport failure becomes a notification
get_balance(s, fails) ==
    IF s.err THEN s
    ELSE IF fails
        THEN put_notification([s EXCEPT !.nbalance = @ + 1], "balance_error")
    ELSE [s EXCEPT !.nbalance = @ + 1]

order_cancel(s, i) ==
    [s EXCEPT !.q_orderclose = Append(@, [stop |-> FALSE, oref |-> s.ord[i].ref])]

(***************************************************************************)
(* MTraderBroker: notify, cancel                                           *)
(***************************************************************************)
notify(s, i) ==
    [s EXCEPT !.notifs =
        Append(@, [ref |-> s.ord[i].ref, status |-> s.ord[i].status])]

\* faulty variant: cancel that marks the order Canceled and notifies at once
\* instead of waiting for the terminal's event
cancel_sync(s, i) ==
    IF s.ord[i].ref \notin DOMAIN s.orders THEN s
    ELSE notify(SetStatus(order_cancel(s, i), i, "Canceled"), i)

cancel(s, i) ==
    IF s.ord[i].ref \notin DOMAIN s.orders THEN s
    ELSE IF s.ord[i].status = "Canceled" THEN s
    ELSE order_cancel(s, i)

next(s) == [s EXCEPT !.notifs = Append(@, Mark)]

\* faulty variant: get_notification that takes the newest entry
get_newest(s) ==
    IF s.notifs = <<>> THEN [s EXCEPT !.ret = Mark]
    ELSE [s EXCEPT !.ret = s.notifs[Len(s.notifs)],
                   !.notifs = SubSeq(@, 1, Len(@) - 1)]

\* MTraderBroker.get_notification: ret is what the call returns; None comes
\* back for an empty queue as it does for a mark
get_notification(s) ==
    IF s.notifs = <<>> THEN [s EXCEPT !.ret = Mark]
    ELSE [s EXCEPT !.ret = Head(s.notifs), !.notifs = Tail(@)]

\* MTStore.stop: the end-of-thread signal for both command workers
store_stop(s) ==
    [s EXCEPT !.q_ordercreate = Append(@, [stop |-> TRUE]),
              !.q_orderclose = Append(@, [stop |-> TRUE])]

(***************************************************************************)
(* MTraderBroker: the state machine                                        *)
(***************************************************************************)
RECURSIVE _submit(_, _)
RECURSIVE submitRest(_, _, _, _)
RECURSIVE _accept(_, _)
RECURSIVE acceptRest(_, _, _, _)
RECURSIVE _cancel(_, _)
RECURSIVE _bracketize(_, _, _)
RECURSIVE cancelAlive(_, _, _)

\* position of the first element of br equal to order i (orders compare by
\* ref), 0 when there is none
IndexOf(s, br, i) ==
    LET hits == {k \in 1..Len(br) : s.ord[br[k]].ref = s.ord[i].ref} IN
    IF hits = {} THEN 0 ELSE CHOOSE k \in hits : \A j \in hits : k <= j

ococancel(s, i, ocol_, k) ==
    LET oref == ocol_[k] IN
    IF oref \in DOMAIN s.orders /\ s.ord[s.orders[oref]].ref # s.ord[i].ref
    THEN cancel(s, s.orders[oref])
    ELSE s

RECURSIVE ocoRest(_, _, _, _)
ocoRest(s, i, ocol_, k) ==
    IF k > Len(ocol_) THEN s
    ELSE ocoRest(ococancel(s, i, ocol_, k), i, ocol_, k + 1)

_ococheck(s, i) ==
    IF s.err THEN s
    ELSE IF alive(s.ord[i]) THEN Raise(s)
    ELSE
        LET ref == s.ord[i].ref
            ocoref == Get(s.ocos, ref, ref)
            group == Get(s.ocol, ocoref, <<>>)
            s1 == [s EXCEPT !.ocos = Del(@, ref), !.ocol = Del(@, ocoref)]
        IN ocoRest(s1, i, group, 1)

_ocoize(s, i) ==
    IF s.ord[i].oco = 0 THEN s
    ELSE
        LET ocoref == s.ord[s.ord[i].oco].ref
            oref == s.ord[i].ref
            s1 == IF ocoref \notin DOMAIN s.ocos
                  THEN [s EXCEPT !.ocos = Put(@, oref, ocoref),
                                 !.ocol = Put(@, ocoref,
                                     Append(Get(s.ocol, ocoref, <<>>), ocoref))]
                  ELSE s
        IN [s1 EXCEPT !.ocol =
                Put(@, ocoref, Append(Get(s1.ocol, ocoref, <<>>), oref))]

submitRest(s, br, k, oref) ==
    IF s.err \/ k > Len(br) THEN s
    ELSE submitRest(IF s.ord[br[k]].ref # oref
                    THEN _submit(s, s.ord[br[k]].ref) ELSE s,
                    br, k + 1, oref)

\* faulty variant: _submit without the early return for a Submitted order
submit_unguarded(s, oref) ==
    IF s.err THEN s
    ELSE IF oref \notin DOMAIN s.orders THEN Raise(s)
    ELSE
        LET i == s.orders[oref]
            s1 == notify(SetStatus(s, i, "Submitted"), i)
        IN submitRest(s1, Get(s1.brackets, oref, <<>>), 1, oref)

_submit(s, oref) ==
    IF s.err THEN s
    ELSE IF oref \notin DOMAIN s.orders THEN Raise(s)
    ELSE IF s.ord[s.orders[oref]].status = "Submitted" THEN s
    ELSE
        LET i == s.orders[oref]
            s1 == notify(SetStatus(s, i, "Submitted"), i)
        IN submitRest(s1, Get(s1.brackets, oref, <<>>), 1, oref)

acceptRest(s, br, k, oref) ==
    IF s.err \/ k > Len(br) THEN s
    ELSE acceptRest(IF s.ord[br[k]].ref # oref
                    THEN _accept(s, s.ord[br[k]].ref) ELSE s,
                    br, k + 1, oref)

\* faulty variant: _accept without the early return for an Accepted order
accept_unguarded(s, oref) ==
    IF s.err THEN s
    ELSE IF oref \notin DOMAIN s.orders THEN Raise(s)
    ELSE
        LET i == s.orders[oref]
            s1 == notify(SetStatus(s, i, "Accepted"), i)
        IN acceptRest(s1, Get(s1.brackets, oref, <<>>), 1, oref)

_accept(s, oref) ==
    IF s.err THEN s
    ELSE IF oref \notin DOMAIN s.orders THEN Raise(s)
    ELSE IF s.ord[s.orders[oref]].status = "Accepted" THEN s
    ELSE
        LET i == s.orders[oref]
            s1 == notify(SetStatus(s, i, "Accepted"), i)
        IN acceptRest(s1, Get(s1.brackets, oref, <<>>), 1, oref)

\* faulty variant: the loop of _bracketize(cancel=True) left after the first
\* member
cancelAlive_first(s, br, k) ==
    IF s.err \/ k > 1 THEN s
    ELSE IF alive(s.ord[br[1]]) THEN _cancel(s, s.ord[br[1]].ref) ELSE s

cancelAlive(s, br, k) ==
    IF s.err \/ k > Len(br) THEN s
    ELSE cancelAlive(IF alive(s.ord[br[k]])
                     THEN _cancel(s, s.ord[br[k]].ref) ELSE s,
                     br, k + 1)

\* faulty variant: _bracketize that leaves the other leg alone when one leg
\* of a two-member bracket is filled
bracketize_keeps_sibling(s, i, cancel_) ==
    IF s.err THEN s
    ELSE
        LET pref == ParentRef(s, i) IN
        IF pref \notin DOMAIN s.brackets THEN s
        ELSE
            LET br == s.brackets[pref]
                s1 == [s EXCEPT !.brackets = Del(@, pref)]
            IN
            IF cancel_ THEN cancelAlive(s1, br, 1)
            ELSE IF Len(br) = 3 THEN
                [s1 EXCEPT !.ord[br[2]].active = TRUE,
                           !.ord[br[3]].active = TRUE,
                           !.brackets = Put(@, pref, SubSeq(br, 2, 3))]
            ELSE s1

\* faulty variant: _bracketize that forgets the group when the primary is
\* filled
bracketize_drops_group(s, i, cancel_) ==
    IF s.err THEN s
    ELSE
        LET pref == ParentRef(s, i) IN
        IF pref \notin DOMAIN s.brackets THEN s
        ELSE
            LET br == s.brackets[pref]
                s1 == [s EXCEPT !.brackets = Del(@, pref)]
            IN
            IF cancel_ THEN cancelAlive(s1, br, 1)
            ELSE IF Len(br) = 3 THEN
                [s1 EXCEPT !.ord[br[2]].active = TRUE,
                           !.ord[br[3]].active = TRUE]
            ELSE IF Len(br) = 2 THEN
                LET oidx == IndexOf(s1, br, i) IN
                IF oidx = 0 THEN Raise(s1)
                ELSE _cancel(s1, s1.ord[br[3 - oidx]].ref)
            ELSE s1

_bracketize(s, i, cancel_) ==
    IF s.err THEN s
    ELSE
        LET pref == ParentRef(s, i) IN
        IF pref \notin DOMAIN s.brackets THEN s
        ELSE
            LET br == s.brackets[pref]
                s1 == [s EXCEPT !.brackets = Del(@, pref)]
            IN
            IF cancel_ THEN cancelAlive(s1, br, 1)
            ELSE IF Len(br) = 3 THEN
                [s1 EXCEPT !.ord[br[2]].active = TRUE,
                           !.ord[br[3]].active = TRUE,
                           !.brackets = Put(@, pref, SubSeq(br, 2, 3))]
            ELSE IF Len(br) = 2 THEN
                LET oidx == IndexOf(s1, br, i) IN
                IF oidx = 0 THEN Raise(s1)
                ELSE _cancel(s1, s1.ord[br[3 - oidx]].ref)
            ELSE s1

_cancel(s, oref) ==
    IF s.err THEN s
    ELSE IF oref \notin DOMAIN s.orders THEN Raise(s)
    ELSE IF s.ord[s.orders[oref]].status = "Canceled" THEN s
    ELSE
        LET i == s.orders[oref]
            s1 == notify(SetStatus(s, i, "Canceled"), i)
        IN _ococheck(_bracketize(s1, i, TRUE), i)

_reject(s, oref) ==
    IF s.err THEN s
    ELSE IF oref \notin DOMAIN s.orders THEN Raise(s)
    ELSE
        LET i == s.orders[oref]
            s1 == notify(reject(s, i), i)
        IN _ococheck(_bracketize(s1, i, TRUE), i)

_expire(s, oref, due) ==
    IF s.err THEN s
    ELSE IF oref \notin DOMAIN s.orders THEN Raise(s)
    ELSE
        LET i == s.orders[oref]
            s1 == notify(expire(s, i, due), i)
        IN _ococheck(_bracketize(s1, i, TRUE), i)

\* faulty variant: the price comparisons of FillTarget made strict
FillTarget_strict(s, i, price) ==
    LET br == s.brackets[ParentRef(s, i)]
        stop_order == br[Len(br) - 1]
        limit_order == br[Len(br)]
    IN IF s.ord[i].ordtype = "Buy"
       THEN (IF price > s.ord[limit_order].price
             THEN limit_order ELSE stop_order)
       ELSE (IF price < s.ord[limit_order].price
             THEN limit_order ELSE stop_order)

\* _fill: the order the fill is booked on.  A dead order that heads a tracked
\* bracket stands for one of the two protective legs, chosen by price.
FillTarget(s, i, price) ==
    LET br == s.brackets[ParentRef(s, i)]
        stop_order == br[Len(br) - 1]
        limit_order == br[Len(br)]
    IN IF s.ord[i].ordtype = "Buy"
       THEN (IF price >= s.ord[limit_order].price
             THEN limit_order ELSE stop_order)
       ELSE (IF price <= s.ord[limit_order].price
             THEN limit_order ELSE stop_order)

\* faulty variant: the gain realized on the part of the position the fill
\* closes
FillPnl_realized(s, size, price) ==
    LET p == s.positions[Sym] IN
    IF p.size # 0 /\ (p.size > 0) # (size > 0)
    THEN (price - p.price) * (-size)
    ELSE 0

\* margin = pnl = 0.0: what _fill hands to order.execute as profit and loss
FillPnl(s, size, price) == 0

\* _fill from "if filled: size = order.size" on, for the chosen order i
FillBook(s, i, size_, price, filled, balfails) ==
    LET size == IF filled THEN s.ord[i].size ELSE size_
        s1 == [s EXCEPT !.positions[Sym] = PosUpdate(@, size, price)]
        s2 == execute(s1, i, size, FillPnl(s, size, price))
        s3 == IF s2.ord[i].remsize # 0
              THEN notify(SetStatus(s2, i, "Partial"), i)
              ELSE get_balance(
                       _bracketize(
                           notify(SetStatus(s2, i, "Completed"), i), i, FALSE),
                       balfails)
    IN _ococheck(s3, i)

\* faulty variant: _fill that books a fill on the order it names even when
\* the order is dead and heads no bracket
fill_books_dead(s, oref, size, price, filled, balfails) ==
    IF s.err THEN s
    ELSE IF size = 0 /\ ~filled THEN s
    ELSE IF oref \notin DOMAIN s.orders THEN Raise(s)
    ELSE
        LET i == s.orders[oref] IN
        IF alive(s.ord[i]) \/ ParentRef(s, i) \notin DOMAIN s.brackets
            THEN FillBook(s, i, size, price, filled, balfails)
        ELSE IF Len(s.brackets[ParentRef(s, i)]) < 2 THEN Raise(s)
        ELSE FillBook(s, FillTarget(s, i, price), size, price, filled, balfails)

_fill(s, oref, size, price, filled, balfails) ==
    IF s.err THEN s
    ELSE IF size = 0 /\ ~filled THEN s
    ELSE IF oref \notin DOMAIN s.orders THEN Raise(s)
    ELSE
        LET i == s.orders[oref] IN
        IF alive(s.ord[i]) THEN FillBook(s, i, size, price, filled, balfails)
        ELSE IF ParentRef(s, i) \notin DOMAIN s.brackets
            THEN put_notification(s, "unknown_fill")
        ELSE IF Len(s.brackets[ParentRef(s, i)]) < 2 THEN Raise(s)
        ELSE FillBook(s, FillTarget(s, i, price), size, price, filled, balfails)

_fill_external(s, size, price, balfails) ==
    IF size = 0 THEN s
    ELSE
        LET s1 == [s EXCEPT !.positions[Sym] = PosUpdate(@, size, price)]
            s2 == NewOrder(s1, IF size < 0 THEN "Sell" ELSE "Buy", size, price,
                           "Market", 0, 0, TRUE)
            i == Len(s2.ord)
            s3 == notify(SetStatus(execute(s2, i, size, 0), i, "Completed"), i)
        IN get_balance(_ococheck(s3, i), balfails)

(***************************************************************************)
(* Comment tags: "ref=5|sl=6|tp=7" as a sequence of characters.            *)
(***************************************************************************)
Digits == <<"0", "1", "2", "3", "4", "5", "6", "7", "8", "9">>

RECURSIVE IntStr(_)
IntStr(n) ==
    IF n < 10 THEN <<Digits[n + 1]>>
    ELSE IntStr(n \div 10) \o <<Digits[(n % 10) + 1]>>

K_ref == <<"r", "e", "f">>
K_sl == <<"s", "l">>
K_tp == <<"t", "p">>
K_oco == <<"o", "c", "o">>

RECURSIVE Join(_, _)
Join(parts, sep) ==
    IF parts = <<>> THEN <<>>
    ELSE IF Len(parts) = 1 THEN parts[1]
    ELSE parts[1] \o <<sep>> \o Join(Tail(parts), sep)

\* order_create: "|".join("%s=%s" % (k, v)) over ref, then sl, tp, oco if set
FormatComment(ref, sl, tp, oco) ==
    Join(<<K_ref \o <<"=">> \o IntStr(ref)>>
         \o (IF sl # 0 THEN <<K_sl \o <<"=">> \o IntStr(sl)>> ELSE <<>>)
         \o (IF tp # 0 THEN <<K_tp \o <<"=">> \o IntStr(tp)>> ELSE <<>>)
         \o (IF oco # 0 THEN <<K_oco \o <<"=">> \o IntStr(oco)>> ELSE <<>>),
         "|")

\* str.split(sep): the pieces between the separators, empty pieces included
RECURSIVE Split(_, _)
Split(str, sep) ==
    LET hits == {k \in 1..Len(str) : str[k] = sep} IN
    IF hits = {} THEN <<str>>
    ELSE LET k == CHOOSE x \in hits : \A y \in hits : x <= y
         IN <<SubSeq(str, 1, k - 1)>> \o Split(SubSeq(str, k + 1, Len(str)), sep)

DigitVal(c) == CHOOSE d \in 0..9 : Digits[d + 1] = c
IsNumber(str) ==
    /\ str # <<>>
    /\ \A k \in 1..Len(str) : \E d \in 0..9 : Digits[d + 1] = str[k]

RECURSIVE ParseInt(_)
ParseInt(str) ==
    IF str = <<>> THEN 0
    ELSE 10 * ParseInt(SubSeq(str, 1, Len(str) - 1)) + DigitVal(str[Len(str)])

\* Adapter.__getattr__("comment"): pairs that do not split in two at "=" or
\* whose value is no integer are skipped; a later pair overrides an earlier
RECURSIVE ParsePairs(_, _)
ParsePairs(pairs, cmt) ==
    IF pairs = <<>> THEN cmt
    ELSE
        LET kv == Split(pairs[1], "=") IN
        ParsePairs(Tail(pairs),
                   IF Len(kv) = 2 /\ IsNumber(kv[2])
                   THEN Put(cmt, kv[1], ParseInt(kv[2])) ELSE cmt)

ParseComment(str) == ParsePairs(Split(str, "|"), EmptyMap)

(***************************************************************************)
(* Transmission gate and order creation                                    *)
(***************************************************************************)
\* MTraderStore._ORDEREXECS
ORDEREXECS(exectype, ordtype) ==
    CASE exectype = "Market" /\ ordtype = "Buy" -> "ORDER_TYPE_BUY"
      [] exectype = "Market" /\ ordtype = "Sell" -> "ORDER_TYPE_SELL"
      [] exectype = "Limit" /\ ordtype = "Buy" -> "ORDER_TYPE_BUY_LIMIT"
      [] exectype = "Limit" /\ ordtype = "Sell" -> "ORDER_TYPE_SELL_LIMIT"
      [] exectype = "Stop" /\ ordtype = "Buy" -> "ORDER_TYPE_BUY_STOP"
      [] exectype = "Stop" /\ ordtype = "Sell" -> "ORDER_TYPE_SELL_STOP"
      [] OTHER -> None

Abs(n) == IF n < 0 THEN -n ELSE n

\* order_create(order, stopside, takeside); stopside, takeside 0 when absent
\* faulty variant: order_create without the check of the order kind
order_create_unchecked(s, i, stopside, takeside) ==
    LET o == s.ord[i]
        order_type == ORDEREXECS(o.exectype, o.ordtype)
        okwargs ==
            [actionType |-> order_type,
             symbol |-> Sym,
             volume |-> Abs(o.size),
             price |-> IF o.exectype # "Market" THEN o.price ELSE 0,
             stoploss |-> IF stopside # 0 THEN s.ord[stopside].price ELSE 0,
             takeprofit |-> IF takeside # 0 THEN s.ord[takeside].price ELSE 0,
             comment |-> FormatComment(
                 o.ref,
                 IF stopside # 0 THEN s.ord[stopside].ref ELSE 0,
                 IF takeside # 0 THEN s.ord[takeside].ref ELSE 0,
                 IF o.oco # 0 THEN s.ord[o.oco].ref ELSE 0)]
    IN [s EXCEPT !.q_ordercreate =
            Append(@, [stop |-> FALSE, oref |-> o.ref, okwargs |-> okwargs])]

order_create(s, i, stopside, takeside) ==
    LET o == s.ord[i]
        order_type == ORDEREXECS(o.exectype, o.ordtype)
        okwargs ==
            [actionType |-> order_type,
             symbol |-> Sym,
             volume |-> Abs(o.size),
             price |-> IF o.exectype # "Market" THEN o.price ELSE 0,
             stoploss |-> IF stopside # 0 THEN s.ord[stopside].price ELSE 0,
             takeprofit |-> IF takeside # 0 THEN s.ord[takeside].price ELSE 0,
             comment |-> FormatComment(
                 o.ref,
                 IF stopside # 0 THEN s.ord[stopside].ref ELSE 0,
                 IF takeside # 0 THEN s.ord[takeside].ref ELSE 0,
                 IF o.oco # 0 THEN s.ord[o.oco].ref ELSE 0)]
    IN IF order_type = None THEN Raise(s)
       ELSE [s EXCEPT !.q_ordercreate =
                Append(@, [stop |-> FALSE, oref |-> o.ref, okwargs |-> okwargs])]

\* faulty variant: a held-back order is written down in broker.orders as well
append_pending_registered(s, i, pref) ==
    [s EXCEPT !.opending = Put(@, pref, Append(Get(@, pref, <<>>), i)),
              !.orders = Put(@, s.ord[i].ref, i)]

\* self.opending[pref].append(order) of _transmit
append_pending(s, i, pref) ==
    [s EXCEPT !.opending = Put(@, pref, Append(Get(@, pref, <<>>), i))]

\* faulty variant: _transmit without the gate, every order is sent at once
\* and alone
transmit_ungated(s, i) ==
    order_create([s EXCEPT !.orders = Put(@, s.ord[i].ref, i)], i, 0, 0)

_transmit(s, i) ==
    LET oref == s.ord[i].ref
        pref == ParentRef(s, i)
    IN
    IF s.ord[i].transmit THEN
        IF oref # pref THEN
            IF pref \notin DOMAIN s.opending THEN Raise(s)
            ELSE
                LET pend == s.opending[pref]
                    s1 == [s EXCEPT !.opending = Del(@, pref)]
                IN
                IF Len(pend) # 2 THEN Raise(s1)
                ELSE
                    LET parent == pend[1]
                        stopside == pend[2]
                        s2 == [s1 EXCEPT
                            !.orders =
                                Put(Put(Put(@, s.ord[parent].ref, parent),
                                        s.ord[stopside].ref, stopside),
                                    oref, i),
                            !.brackets = Put(@, pref, <<parent, stopside, i>>)]
                    IN order_create(s2, parent, stopside, i)
        ELSE order_create([s EXCEPT !.orders = Put(@, oref, i)], i, 0, 0)
    ELSE append_pending(s, i, pref)

\* buy / sell
trade(s, ordtype, size, price, exectype, parent, oco, transmit) ==
    LET s1 == NewOrder(s, ordtype, size, price, exectype, parent, oco, transmit)
    IN _transmit(_ocoize(s1, Len(s1.ord)), Len(s1.ord))

(***************************************************************************)
(* MTraderStore: transaction dispatch                                      *)
(***************************************************************************)
_process_order(s, oref, state, size, price, due, balfails) ==
    CASE state = "ORDER_STATE_STARTED" -> _submit(s, oref)
      [] state = "ORDER_STATE_PLACED" -> _accept(s, oref)
      [] state = "ORDER_STATE_CANCELED" -> _cancel(s, oref)
      [] state \in {"ORDER_STATE_PARTIAL", "ORDER_STATE_FILLED"} ->
            _fill(s, oref, size, price, state = "ORDER_STATE_FILLED", balfails)
      [] state = "ORDER_STATE_REJECTED" -> _reject(s, oref)
      [] state = "ORDER_STATE_EXPIRED" -> _expire(s, oref, due)
      [] OTHER -> s

\* float(volume), negated when the order type says SELL
EvSize(ev) == IF ev.order_type = "SELL" THEN -ev.volume ELSE ev.volume

_process_transaction(s, oid, ev, due, balfails) ==
    IF oid \notin DOMAIN s.o_ordersrev THEN s
    ELSE _process_order(s, s.o_ordersrev[oid], ev.order_state, EvSize(ev),
                        ev.price, due, balfails)

\* faulty variant: _transaction that books every foreign ORDER_ADD, whether
\* or not a cancellation went through before
transaction_unflagged(s, ev, due, balfails) ==
    IF ev.order \in Values(s.o_orders)
        THEN _process_transaction(s, ev.order, ev, due, balfails)
    ELSE IF ev.position \in Values(s.o_orders)
        THEN (IF ev.order_state # "ORDER_STATE_FILLED" THEN s
              ELSE _process_transaction(s, ev.position, ev, due, balfails))
    ELSE IF ev.type = "TRADE_TRANSACTION_ORDER_ADD" /\ ev.symbol = Sym
        THEN _fill_external([s EXCEPT !.cancel_flag = FALSE],
                            EvSize(ev), ev.price, balfails)
    ELSE s

_transaction(s, ev, due, balfails) ==
    IF ev.order \in Values(s.o_orders)
        THEN _process_transaction(s, ev.order, ev, due, balfails)
    ELSE IF ev.position \in Values(s.o_orders)
        THEN (IF ev.order_state # "ORDER_STATE_FILLED" THEN s
              ELSE _process_transaction(s, ev.position, ev, due, balfails))
    ELSE IF s.cancel_flag /\ ev.type = "TRADE_TRANSACTION_ORDER_ADD"
        THEN (IF ev.symbol = Sym
              THEN _fill_external([s EXCEPT !.cancel_flag = FALSE],
                                  EvSize(ev), ev.price, balfails)
              ELSE [s EXCEPT !.cancel_flag = FALSE])
    ELSE s

(***************************************************************************)
(* MTraderStore: the order creation and cancellation workers               *)
(***************************************************************************)
\* _t_order_create after construct_and_send returned or raised
order_created(s, c) ==
    IF c.raised THEN _reject(put_notification(s, "exception"), c.oref)
    ELSE IF c.reply.error
        THEN (IF "desription" \in DOMAIN c.reply
              THEN _reject(put_notification(s, c.reply["desription"]), c.oref)
              ELSE Raise(s))
    ELSE [s EXCEPT !.o_orders = Put(@, c.oref, c.reply.order),
                   !.o_orders_type = Put(@, c.oref, c.actionType),
                   !.o_ordersrev = Put(@, c.reply.order, c.oref)]

\* one round of _t_order_cancel for the queued ref; fails: the remote call
\* raised or answered with an error
order_canceled(s, oref, fails) ==
    IF oref \notin DOMAIN s.o_orders THEN s
    ELSE IF oref \notin DOMAIN s.orders THEN Raise(s)
    ELSE IF fails THEN put_notification(s, "Order not cancelled")
    ELSE [s EXCEPT !.cancel_flag = TRUE]

(***************************************************************************)
(* Reconciliation: rebuild_positions, rebuild_orders, live                 *)
(***************************************************************************)
Datas == {Sym}      \* the instruments with a registered data feed

\* str.endswith / in, on the type names the terminal uses
EndsWith_BUY(type) == type \in {"POSITION_TYPE_BUY", "ORDER_TYPE_BUY"}
Has_BUY(type) ==
    type \in {"POSITION_TYPE_BUY", "ORDER_TYPE_BUY", "ORDER_TYPE_BUY_LIMIT",
              "ORDER_TYPE_BUY_STOP", "ORDER_TYPE_BUY_STOP_LIMIT"}
EndsWith_LIMIT(type) ==
    type \in {"ORDER_TYPE_BUY_LIMIT", "ORDER_TYPE_SELL_LIMIT",
              "ORDER_TYPE_BUY_STOP_LIMIT", "ORDER_TYPE_SELL_STOP_LIMIT"}
EndsWith_STOP(type) == type \in {"ORDER_TYPE_BUY_STOP", "ORDER_TYPE_SELL_STOP"}
EndsWith_STOP_LIMIT(type) ==
    type \in {"ORDER_TYPE_BUY_STOP_LIMIT", "ORDER_TYPE_SELL_STOP_LIMIT"}

\* MTraderStore.rebuild_order
rebuild_order(s, i, oid) ==
    LET o == s.ord[i]
        order_type == ORDEREXECS(o.exectype, o.ordtype)
    IN IF s.err THEN s
       ELSE IF order_type = None THEN Raise(s)
       ELSE [s EXCEPT !.o_orders = Put(@, o.ref, oid),
                      !.o_orders_type = Put(@, o.ref, order_type),
                      !.o_ordersrev = Put(@, oid, o.ref)]

\* faulty variant: the ref counter is never reseeded from the tag
Reseed_never(s, info, key) == s

\* Order.refbasis = itertools.count(info[key]) when the tag has the key
Reseed(s, info, key) ==
    IF key \in DOMAIN info THEN [s EXCEPT !.refbasis = info[key]] ELSE s

\* a leg just constructed is registered and appended to the bracket of pref
RegisterLeg(s, pref) ==
    LET j == Len(s.ord) IN
    [s EXCEPT !.orders = Put(@, s.ord[j].ref, j),
              !.brackets = Put(@, pref, Append(s.brackets[pref], j))]

\* the stop or take-profit order of a rebuilt parent i: opposite side, same
\* volume, registered and appended to the parent's bracket
RebuildLeg(s, info, key, i, volume, price, exectype, transmit) ==
    IF s.err THEN s
    ELSE RegisterLeg(NewOrder(Reseed(s, info, key),
                              IF s.ord[i].ordtype = "Buy" THEN "Sell" ELSE "Buy",
                              volume, price, exectype, i, 0, transmit),
                     s.ord[i].ref)

\* the parent just constructed is registered, heads its bracket and is
\* mapped to the remote id
RegisterParent(s, oid) ==
    LET i == Len(s.ord)
        pref == s.ord[i].ref
    IN rebuild_order([s EXCEPT !.orders = Put(@, pref, i),
                               !.brackets = Put(@, pref, <<i>>)],
                     i, oid)

RebuildStop(s, e, info, i) ==
    IF e.stoploss > 0
    THEN RebuildLeg(s, info, K_sl, i, e.volume, e.stoploss, "Stop",
                    e.takeprofit <= 0)
    ELSE s

RebuildTake(s, e, info, i) ==
    IF e.takeprofit > 0
    THEN RebuildLeg(s, info, K_tp, i, e.volume, e.takeprofit, "Limit", TRUE)
    ELSE s

\* the parent order of a snapshot entry with its legs, registered under the
\* remote id; the parent is order object Len(s.ord) + 1
RebuildBracket(s, e, info, ordtype, exectype) ==
    RebuildTake(
        RebuildStop(
            RegisterParent(
                NewOrder(Reseed(s, info, K_ref), ordtype, e.volume, e.open,
                         exectype, 0, 0,
                         e.stoploss <= 0 /\ e.takeprofit <= 0),
                e.id),
            e, info, Len(s.ord) + 1),
        e, info, Len(s.ord) + 1)

\* Position(size, price), the value positions[symbol] is replaced by
Position(size, price) ==
    IF size = 0 THEN [size |-> 0, price |-> 0]
    ELSE [size |-> size, price |-> price]

\* rebuild_positions: the position of the instrument is set or updated
PositionSeen(s, p) ==
    LET size == IF EndsWith_BUY(p.type) THEN p.volume ELSE -p.volume
        cur == Get(s.positions, p.symbol, Position(0, 0))
    IN [s EXCEPT !.positions =
            Put(@, p.symbol,
                IF cur.size = 0 THEN Position(size, p.open)
                ELSE PosUpdate(cur, size, p.open))]

\* faulty variant: reconciliation that submits the parent only
SubmitParent_alone(s, i) == notify(SetStatus(s, i, "Submitted"), i)

\* self._submit(pref) for the parent, order object i
SubmitParent(s, i) == _submit(s, s.ord[i].ref)

\* rebuild_positions: the parent is executed in full and completed
CompleteParent(s, i) ==
    IF s.err THEN s
    ELSE _ococheck(
             _bracketize(
                 notify(SetStatus(execute(s, i, s.ord[i].size, 0), i, "Completed"),
                        i),
                 i, FALSE),
             i)

\* rebuild_positions: the body of the loop for one position p
rebuild_position(s, p) ==
    IF s.err THEN s
    ELSE IF p.symbol \notin Datas THEN PositionSeen(s, p)
    ELSE CompleteParent(
             SubmitParent(
                 RebuildBracket(PositionSeen(s, p), p, ParseComment(p.comment),
                                IF EndsWith_BUY(p.type) THEN "Buy" ELSE "Sell",
                                "Market"),
                 Len(s.ord) + 1),
             Len(s.ord) + 1)

\* faulty variant: only a missing partner cancels the order
OcoResolve_missing_only(s, i) ==
    IF s.ord[i].oco = 0 THEN cancel(s, i) ELSE s

\* rebuild_orders: after _ocoize, a missing partner cancels the order and a
\* dead partner resolves the group
OcoResolve(s, i) ==
    LET oco == s.ord[i].oco IN
    IF oco = 0 THEN cancel(s, i)
    ELSE IF ~alive(s.ord[oco]) THEN _ococheck(s, oco)
    ELSE s

\* rebuild_orders: the oco partner named by the tag, looked up in orders
PendingOco(s, info, i) ==
    IF s.err \/ K_oco \notin DOMAIN info THEN s
    ELSE OcoResolve(
             _ocoize([s EXCEPT !.ord[i].oco = Get(s.orders, info[K_oco], 0)], i),
             i)

ExecOfType(type) ==
    IF EndsWith_LIMIT(type) THEN "Limit"
    ELSE IF EndsWith_STOP(type) THEN "Stop"
    ELSE IF EndsWith_STOP_LIMIT(type) THEN "StopLimit"
    ELSE "Market"

RebuildPending(s, o, info) ==
    SubmitParent(
        PendingOco(
            RebuildBracket(s, o, info,
                           IF Has_BUY(o.type) THEN "Buy" ELSE "Sell",
                           ExecOfType(o.type)),
            info, Len(s.ord) + 1),
        Len(s.ord) + 1)

\* rebuild_orders: the body of the loop for one pending order o
rebuild_pending(s, o) ==
    IF s.err THEN s
    ELSE IF o.state \notin {"ORDER_STATE_STARTED", "ORDER_STATE_PLACED",
                            "ORDER_STATE_PARTIAL"} THEN s
    ELSE IF o.symbol \notin Datas THEN s
    ELSE RebuildPending(s, o, ParseComment(o.comment))

RECURSIVE rebuild_positions(_, _)
rebuild_positions(s, ps) ==
    IF ps = <<>> THEN s
    ELSE rebuild_positions(rebuild_position(s, Head(ps)), Tail(ps))

RECURSIVE rebuild_orders(_, _)
rebuild_orders(s, os) ==
    IF os = <<>> THEN s
    ELSE rebuild_orders(rebuild_pending(s, Head(os)), Tail(os))

\* get_orders raises when the terminal answers with an error
OrdersAfter(s, snap, fails) ==
    IF s.err THEN s
    ELSE IF fails = "orders" THEN Raise(s)
    ELSE rebuild_orders(s, snap.orders)

\* get_positions raises when the terminal answers with an error
rebuild_environement(s, snap, fails) ==
    OrdersAfter(IF fails = "positions" THEN Raise(s)
                ELSE rebuild_positions(s, snap.positions),
                snap, fails)

\* self.p.rebuild = False, reached when nothing was raised
RebuildDone(s) == IF s.err THEN s ELSE [s EXCEPT !.rebuild = FALSE]

\* MTraderBroker.live
live(s, snap, fails) ==
    IF s.rebuild THEN RebuildDone(rebuild_environement(s, snap, fails)) ELSE s

(***************************************************************************)
(* The terminal's answers and transactions                                 *)
(***************************************************************************)
Replies(oid) ==
    {[raised |-> TRUE, reply |-> [error |-> TRUE]],
     [raised |-> FALSE, reply |-> [error |-> TRUE, description |-> "failed"]],
     [raised |-> FALSE, reply |-> [error |-> FALSE, order |-> oid]]}

OrderStates ==
    {"ORDER_STATE_STARTED", "ORDER_STATE_PLACED", "ORDER_STATE_CANCELED",
     "ORDER_STATE_PARTIAL", "ORDER_STATE_FILLED", "ORDER_STATE_REJECTED",
     "ORDER_STATE_EXPIRED"}

\* A transaction the terminal may send.  id is an order id it has handed
\* out; 0 stands for an id of somebody else.  Fields the dispatch does not
\* read for a given state are held at one value.
Ev(order, position, st, ty, v, p, ot) ==
    [order |-> order, position |-> position, order_state |-> st, type |-> ty,
     volume |-> v, price |-> p, order_type |-> ot, symbol |-> Sym]

OwnIds == 1..(nextOid - 1)

Events ==
    \* lifecycle states other than fills, keyed by the order id
    {Ev(i, 0, st, "TRADE_TRANSACTION_ORDER_UPDATE", MaxVol, 1, "BUY") :
        i \in OwnIds,
        st \in OrderStates \ {"ORDER_STATE_PARTIAL", "ORDER_STATE_FILLED"}}
    \cup \* partial fills, keyed by the order id
    {Ev(i, 0, "ORDER_STATE_PARTIAL", "TRADE_TRANSACTION_ORDER_UPDATE", v, p, ot) :
        i \in OwnIds, v \in 0..MaxVol, p \in Prices, ot \in {"BUY", "SELL"}}
    \cup \* fills, keyed by the order id or by the position id
    {Ev(id[1], id[2], "ORDER_STATE_FILLED", "TRADE_TRANSACTION_ORDER_UPDATE",
        MaxVol, p, "BUY") :
        id \in {<<i, 0>> : i \in OwnIds} \cup {<<0, i>> : i \in OwnIds},
        p \in Prices}
    \cup \* a state other than a fill keyed by the position id only
    {Ev(0, i, "ORDER_STATE_PLACED", "TRADE_TRANSACTION_ORDER_UPDATE",
        MaxVol, 1, "BUY") : i \in OwnIds}
    \cup \* orders of somebody else
    {Ev(0, 0, "ORDER_STATE_PLACED", "TRADE_TRANSACTION_ORDER_ADD", v, p, ot) :
        v \in {0, MaxVol}, p \in {1}, ot \in {"BUY", "SELL"}}
    \cup
    {Ev(0, 0, "ORDER_STATE_PLACED", "TRADE_TRANSACTION_ORDER_UPDATE",
        MaxVol, 1, "BUY")}

\* whether the validity date of the order has passed matters to an expiry
\* only, and the BALANCE request is made on fills only
Dues(ev) ==
    IF ev.order_state = "ORDER_STATE_EXPIRED" THEN BOOLEAN ELSE {FALSE}
BalFails(ev) ==
    IF \/ ev.order_state \in {"ORDER_STATE_PARTIAL", "ORDER_STATE_FILLED"}
       \/ ev.type = "TRADE_TRANSACTION_ORDER_ADD"
    THEN BOOLEAN ELSE {FALSE}

(***************************************************************************)
(* Actions                                                                 *)
(***************************************************************************)
Thread(name, s) == [threads EXCEPT ![name] = ~s.err]

\* what a handler run by the named thread leaves behind
Step(name, s) == Becomes(s) /\ threads' = Thread(name, s)

\* One call of the strategy.  parent, oco and target name the order that an
\* earlier call of the script returned (0: none).
Call(op, price, exectype, parent, oco, transmit, target) ==
    [op |-> op, size |-> MaxVol, price |-> price, exectype |-> exectype,
     parent |-> parent, oco |-> oco, transmit |-> transmit, target |-> target]

BuyCall(price, exectype, parent, oco, transmit) ==
    Call("buy", price, exectype, parent, oco, transmit, 0)
SellCall(price, exectype, parent, oco, transmit) ==
    Call("sell", price, exectype, parent, oco, transmit, 0)
CancelCall(target) == Call("cancel", 1, "Market", 0, 0, TRUE, target)

Mid == MaxPrice - 1

\* The strategies of live trading: a long or a short bracket (primary and
\* stop leg held back, take-profit leg transmitting), alone, canceled, or
\* with the primary in an oco group; a single order that is then canceled.
Scripts ==
    {<<BuyCall(Mid, "Market", 0, 0, FALSE), SellCall(1, "Stop", 1, 0, FALSE),
       SellCall(lp, "Limit", 1, 0, TRUE)>> : lp \in Prices}
    \cup
    {<<SellCall(Mid, "Limit", 0, 0, FALSE), BuyCall(MaxPrice, "Stop", 1, 0, FALSE),
       BuyCall(lp, "Limit", 1, 0, TRUE)>> : lp \in Prices}
    \cup
    {<<BuyCall(Mid, "Limit", 0, 0, FALSE), SellCall(1, "Stop", 1, 0, FALSE),
       SellCall(MaxPrice, "Limit", 1, 0, TRUE), CancelCall(1)>>,
     <<SellCall(Mid, "Limit", 0, 0, TRUE),
       BuyCall(Mid, "Market", 0, 1, FALSE), SellCall(1, "Stop", 2, 0, FALSE),
       SellCall(MaxPrice, "Limit", 2, 0, TRUE)>>,
     <<BuyCall(Mid, "Market", 0, 0, TRUE), CancelCall(1)>>,
     <<SellCall(Mid, "Limit", 0, 0, TRUE), CancelCall(1)>>}

\* The strategies with an oco group of three: both later orders name the
\* first, or the third names the second.
OcoScripts ==
    {<<BuyCall(Mid, "Limit", 0, 0, TRUE), SellCall(Mid, "Limit", 0, 1, TRUE),
       BuyCall(1, "Limit", 0, 1, TRUE)>>,
     <<BuyCall(Mid, "Limit", 0, 0, TRUE), SellCall(Mid, "Limit", 0, 1, TRUE),
       BuyCall(1, "Limit", 0, 2, TRUE), CancelCall(3)>>}

Arg(h) == IF h = 0 THEN 0 ELSE handles[h]

Trade(op, ordtype) ==
    /\ threads.strategy
    /\ pc <= Len(script)
    /\ script[pc].op = op
    /\ LET a == script[pc] IN
       Step("strategy", trade(S, ordtype, a.size, a.price, a.exectype,
                              Arg(a.parent), Arg(a.oco), a.transmit))
    /\ handles' = Append(handles, Len(ord'))
    /\ pc' = pc + 1
    /\ UNCHANGED <<nextOid, evcount, script, snapshot, inlive, got, sent>>

Buy == Trade("buy", "Buy")
Sell == Trade("sell", "Sell")

Cancel ==
    /\ threads.strategy
    /\ pc <= Len(script)
    /\ script[pc].op = "cancel"
    /\ Becomes(cancel(S, Arg(script[pc].target)))
    /\ pc' = pc + 1
    /\ UNCHANGED <<threads, nextOid, evcount, script, handles, snapshot, inlive, got, sent>>

\* Cerebro.runstop -> broker.stop -> store.stop
StopCall == Call("stop", 1, "Market", 0, 0, TRUE, 0)
NextCall == Call("next", 1, "Market", 0, 0, TRUE, 0)
GetCall == Call("get_notification", 1, "Market", 0, 0, TRUE, 0)

\* a call of the main thread that is neither buy, sell nor cancel
MainCall(op, s) ==
    /\ threads.strategy
    /\ pc <= Len(script)
    /\ script[pc].op = op
    /\ Becomes(s)
    /\ got' = IF op = "get_notification" THEN Append(got, s.ret) ELSE got
    /\ pc' = pc + 1
    /\ UNCHANGED <<threads, nextOid, evcount, script, handles, snapshot,
                   inlive, sent>>

Stop == MainCall("stop", store_stop(S))
NextTick == MainCall("next", next(S))
GetNotification == MainCall("get_notification", get_notification(S))

\* _t_order_create: one command, sent and answered
CreateWorker ==
    /\ threads.create
    /\ q_ordercreate # <<>>
    /\ LET msg == Head(q_ordercreate)
           s0 == [S EXCEPT !.q_ordercreate = Tail(@)]
       IN IF msg.stop
          THEN /\ Becomes(s0)
               /\ threads' = [threads EXCEPT !.create = FALSE]
               /\ UNCHANGED nextOid
          ELSE \E r \in Replies(nextOid) :
               /\ Step("create",
                       order_created(s0,
                           [oref |-> msg.oref,
                            actionType |-> msg.okwargs.actionType,
                            raised |-> r.raised, reply |-> r.reply]))
               /\ nextOid' = IF r.raised \/ r.reply.error
                             THEN nextOid ELSE nextOid + 1
    /\ UNCHANGED <<evcount, script, pc, handles, snapshot, inlive, got, sent>>

\* _t_order_cancel: one command
CancelWorker ==
    /\ threads.cancel
    /\ q_orderclose # <<>>
    /\ LET msg == Head(q_orderclose)
           s0 == [S EXCEPT !.q_orderclose = Tail(@)]
       IN IF msg.stop
          THEN Becomes(s0) /\ threads' = [threads EXCEPT !.cancel = FALSE]
          ELSE \E fails \in BOOLEAN :
               Step("cancel", order_canceled(s0, msg.oref, fails))
    /\ UNCHANGED <<nextOid, evcount, script, pc, handles, snapshot, inlive, got, sent>>

\* _t_streaming_events: one transaction received and dispatched
Receive(limit) ==
    /\ threads.events
    /\ evcount < limit
    /\ \E ev \in Events :
        \E due \in Dues(ev), balfails \in BalFails(ev) :
            Step("events", _transaction(S, ev, due, balfails))
    /\ evcount' = evcount + 1
    /\ UNCHANGED <<nextOid, script, pc, handles, snapshot, inlive, got, sent>>

Transaction == Receive(MaxEvents)
OcoTransaction == Receive(MaxOcoEvents)
RebuildTransaction == Receive(MaxRebuildEvents)

\* _t_streaming_events: recv_json raises ZMQError, NotDone ends the thread
StreamDown ==
    /\ threads.events
    /\ Step("events", Raise(S))
    /\ UNCHANGED <<nextOid, evcount, script, pc, handles, snapshot, inlive,
                   got, sent>>

\* the data feed goes live: store.live -> broker.live
LiveCall ==
    /\ threads.strategy
    /\ \E fails \in {"none", "positions", "orders"} :
        Step("strategy", live(S, snapshot, fails))
    /\ UNCHANGED <<nextOid, evcount, script, pc, handles, snapshot, inlive, got, sent>>

(***************************************************************************)
(* Specification of live trading: the broker is built with rebuild=False   *)
(* and started; nothing has been ordered yet.                              *)
(***************************************************************************)
Built ==
    /\ ord = <<>>
    /\ refbasis = 1
    /\ orders = EmptyMap
    /\ brackets = EmptyMap
    /\ opending = EmptyMap
    /\ ocos = EmptyMap
    /\ ocol = EmptyMap
    /\ notifs = <<>>
    /\ positions = [x \in {Sym} |-> [size |-> 0, price |-> 0]]
    /\ o_orders = EmptyMap
    /\ o_ordersrev = EmptyMap
    /\ o_orders_type = EmptyMap
    /\ q_ordercreate = <<>>
    /\ q_orderclose = <<>>
    /\ o_notifs = <<>>
    /\ cancel_flag = FALSE
    /\ nbalance = 0
    /\ threads = [strategy |-> TRUE, create |-> TRUE, cancel |-> TRUE,
                  events |-> TRUE]
    /\ evcount = 0
    /\ pc = 1
    /\ handles = <<>>
    /\ inlive = "idle"
    /\ got = <<>>
    /\ sent = <<>>

Live ==
    /\ Built
    /\ rebuild = FALSE
    /\ nextOid = 1
    /\ snapshot = [positions |-> <<>>, orders |-> <<>>]

Init == Live /\ script \in Scripts

Next ==
    \/ Buy
    \/ Sell
    \/ Cancel
    \/ CreateWorker
    \/ CancelWorker
    \/ Transaction

Spec == Init /\ [][Next]_vars

(***************************************************************************)
(* Specification of live trading with an oco group of three orders         *)
(***************************************************************************)
InitOco == Live /\ script \in OcoScripts

NextOco ==
    \/ Buy
    \/ Sell
    \/ Cancel
    \/ CreateWorker
    \/ CancelWorker
    \/ OcoTransaction

SpecOco == InitOco /\ [][NextOco]_vars

(***************************************************************************)
(* Specification of a session that starts with reconciliation: the broker  *)
(* is built with rebuild=True and the terminal holds a position and/or a   *)
(* pending order left by an earlier session.                               *)
(***************************************************************************)
PosId == 1          \* the terminal's id of the position of the snapshot
PendId == 2         \* the terminal's id of its pending order

Pos(type, symbol, sl, tp, comment) ==
    [id |-> PosId, symbol |-> symbol, type |-> type, volume |-> MaxVol,
     open |-> Mid, stoploss |-> sl, takeprofit |-> tp, comment |-> comment]

Pending(type, state, sl, tp, comment) ==
    [id |-> PendId, symbol |-> Sym, type |-> type, state |-> state,
     volume |-> MaxVol, open |-> Mid, stoploss |-> sl, takeprofit |-> tp,
     comment |-> comment]

\* tags written by an earlier session, complete, partial, colliding with the
\* refs of a fresh session, and none
Tags ==
    {FormatComment(5, 6, 7, 0), FormatComment(MaxRef, MaxRef - 2, MaxRef - 1, 0),
     FormatComment(1, 2, 3, 0), FormatComment(5, 0, 0, 0), <<>>}

SnapPositions ==
    {<<>>, <<Pos("POSITION_TYPE_BUY", "GBPUSD", 1, MaxPrice,
                 FormatComment(5, 6, 7, 0))>>}
    \cup {<<Pos("POSITION_TYPE_BUY", Sym, 1, MaxPrice, c)>> : c \in Tags}
    \cup {<<Pos("POSITION_TYPE_SELL", Sym, MaxPrice, 1, c)>> : c \in Tags}
    \cup {<<Pos(ty, Sym, l[1], l[2], FormatComment(5, 6, 7, 0))>> :
            ty \in {"POSITION_TYPE_BUY", "POSITION_TYPE_SELL"},
            l \in {<<0, 0>>, <<1, 0>>, <<0, MaxPrice>>}}

SnapOrders ==
    {<<>>,
     <<Pending("ORDER_TYPE_BUY_LIMIT", "ORDER_STATE_PLACED", 0, 0,
               FormatComment(8, 0, 0, 5))>>,
     <<Pending("ORDER_TYPE_BUY_LIMIT", "ORDER_STATE_PLACED", 0, 0,
               FormatComment(8, 0, 0, 9))>>,
     <<Pending("ORDER_TYPE_BUY_LIMIT", "ORDER_STATE_PLACED", 0, 0,
               FormatComment(8, 0, 0, 6))>>,
     <<Pending("ORDER_TYPE_SELL_STOP", "ORDER_STATE_STARTED", 0, 0,
               FormatComment(4, 0, 0, 0))>>,
     <<Pending("ORDER_TYPE_SELL_LIMIT", "ORDER_STATE_FILLED", 0, 0,
               FormatComment(8, 0, 0, 0))>>,
     <<Pending("ORDER_TYPE_BUY_STOP", "ORDER_STATE_PLACED", 1, MaxPrice,
               FormatComment(8, 9, 10, 0))>>}

\* two pending orders of one oco group, the one that declares the partner
\* listed before it or after it
OcoDeclarer ==
    Pending("ORDER_TYPE_BUY_LIMIT", "ORDER_STATE_PLACED", 0, 0,
            FormatComment(8, 0, 0, 9))
OcoPartner ==
    [Pending("ORDER_TYPE_SELL_LIMIT", "ORDER_STATE_PLACED", 0, 0,
             FormatComment(9, 0, 0, 0)) EXCEPT !.id = PosId]
SnapOcoPairs == {<<OcoDeclarer, OcoPartner>>, <<OcoPartner, OcoDeclarer>>}

\* a position alone, or the tagged long position with a pending order, or
\* two pending orders
Snapshots ==
    [positions : SnapPositions, orders : {<<>>}]
    \cup [positions : {<<Pos("POSITION_TYPE_BUY", Sym, 1, MaxPrice,
                             FormatComment(5, 6, 7, 0))>>, <<>>},
          orders : SnapOrders]
    \cup [positions : {<<>>}, orders : SnapOcoPairs]

\* the strategy places one order, before or after the feed goes live
RebuildScripts == {<<BuyCall(Mid, "Limit", 0, 0, TRUE)>>}

InitRebuild ==
    /\ Built
    /\ rebuild = TRUE
    /\ nextOid = PendId + 1
    /\ snapshot \in Snapshots
    /\ script \in RebuildScripts

NextRebuild ==
    \/ LiveCall
    \/ Buy
    \/ CreateWorker
    \/ CancelWorker
    \/ RebuildTransaction

SpecRebuild == InitRebuild /\ [][NextRebuild]_vars

(***************************************************************************)
(* Specification of reconciliation next to the event thread.  store.start  *)
(* starts _t_streaming_events before the feed goes live, and nothing makes *)
(* the two threads wait for each other: the event thread may run between   *)
(* the two calls rebuild_environement makes.                               *)
(***************************************************************************)
\* broker.live up to the return of rebuild_positions
LiveRebuildPositions ==
    /\ threads.strategy
    /\ inlive = "idle"
    /\ rebuild
    /\ \E fails \in BOOLEAN :
        Step("strategy", IF fails THEN Raise(S)
                         ELSE rebuild_positions(S, snapshot.positions))
    /\ inlive' = IF threads'.strategy THEN "orders" ELSE "idle"
    /\ UNCHANGED <<nextOid, evcount, script, pc, handles, snapshot, got, sent>>

\* broker.live from the call of rebuild_orders to its end
LiveRebuildOrders ==
    /\ threads.strategy
    /\ inlive = "orders"
    /\ \E fails \in {"none", "orders"} :
        Step("strategy", RebuildDone(OrdersAfter(S, snapshot, fails)))
    /\ inlive' = "idle"
    /\ UNCHANGED <<nextOid, evcount, script, pc, handles, snapshot, got, sent>>

InitRace ==
    /\ Built
    /\ rebuild = TRUE
    /\ nextOid = PendId + 1
    /\ snapshot \in Snapshots
    /\ script = <<>>

RaceTransaction == Receive(MaxRaceEvents)

NextRace ==
    \/ LiveRebuildPositions
    \/ LiveRebuildOrders
    \/ RaceTransaction
    \/ CancelWorker

SpecRace == InitRace /\ [][NextRace]_vars

(***************************************************************************)
(* Specification of a whole run: the main thread also marks ticks, fetches *)
(* notifications and stops the store; the strategy may call buy and sell   *)
(* outside the bracket protocol or with an order kind the store has no     *)
(* code for; the event stream may break.                                   *)
(***************************************************************************)
CallScripts ==
    {\* a third child, transmitting, after the primary went out alone
     <<BuyCall(Mid, "Limit", 0, 0, TRUE), SellCall(1, "Stop", 1, 0, FALSE),
       SellCall(MaxPrice, "Limit", 1, 0, FALSE),
       SellCall(Mid, "Limit", 1, 0, TRUE)>>,
     \* a stop-limit order, alone and as the primary of a bracket
     <<BuyCall(Mid, "StopLimit", 0, 0, TRUE)>>,
     <<BuyCall(Mid, "StopLimit", 0, 0, FALSE), SellCall(1, "Stop", 1, 0, FALSE),
       SellCall(MaxPrice, "Limit", 1, 0, TRUE)>>,
     \* the store is stopped after two orders; after an order and its
     \* cancellation, with one more order to follow
     <<BuyCall(Mid, "Limit", 0, 0, TRUE), SellCall(Mid, "Limit", 0, 0, TRUE),
       StopCall>>,
     <<BuyCall(Mid, "Limit", 0, 0, TRUE), CancelCall(1), StopCall,
       SellCall(Mid, "Limit", 0, 0, TRUE)>>,
     \* the loop of the engine around one order
     <<BuyCall(Mid, "Market", 0, 0, TRUE), NextCall, GetCall, GetCall,
       NextCall, GetCall>>}

InitCalls == Live /\ script \in CallScripts

CallsTransaction == Receive(MaxCallEvents)

NextCalls ==
    \/ Buy
    \/ Sell
    \/ Cancel
    \/ Stop
    \/ NextTick
    \/ GetNotification
    \/ CreateWorker
    \/ CancelWorker
    \/ CallsTransaction
    \/ StreamDown

SpecCalls == InitCalls /\ [][NextCalls]_vars

(***************************************************************************)
(* Specification of the creation worker next to the event thread.          *)
(* _t_order_create blocks in construct_and_send while the terminal         *)
(* answers, and writes _orders, _orders_type and _ordersrev one statement  *)
(* after the other, without a lock; _t_streaming_events may dispatch a     *)
(* transaction between any two of them.                                    *)
(***************************************************************************)
MaxCreateEvents == 2

\* _t_order_create from the answer of the terminal to self._orders_type[oref]:
\* a failure rejects the order, an answer with an id is mapped by ref
order_mapped(s, c) ==
    IF c.raised THEN _reject(put_notification(s, "exception"), c.oref)
    ELSE IF c.reply.error
        THEN (IF "desription" \in DOMAIN c.reply
              THEN _reject(put_notification(s, c.reply["desription"]), c.oref)
              ELSE Raise(s))
    ELSE [s EXCEPT !.o_orders = Put(@, c.oref, c.reply.order),
                   !.o_orders_type = Put(@, c.oref, c.actionType)]

\* self._ordersrev[oid] = oref
order_mapped_rev(s, c) ==
    [s EXCEPT !.o_ordersrev = Put(@, c.reply.order, c.oref)]

\* the terminal answered the command with the id of a new order
Answered(c) == ~c.raised /\ ~c.reply.error

\* _t_order_create: the command in front is taken and sent; the terminal
\* has answered and the worker holds the answer
CreateSend ==
    /\ threads.create
    /\ sent = <<>>
    /\ q_ordercreate # <<>>
    /\ LET msg == Head(q_ordercreate)
           s0 == [S EXCEPT !.q_ordercreate = Tail(@)]
       IN /\ Becomes(s0)
          /\ IF msg.stop
             THEN /\ threads' = [threads EXCEPT !.create = FALSE]
                  /\ UNCHANGED <<nextOid, sent>>
             ELSE \E r \in Replies(nextOid) :
                  /\ sent' = <<[oref |-> msg.oref,
                                actionType |-> msg.okwargs.actionType,
                                raised |-> r.raised, reply |-> r.reply,
                                mapped |-> FALSE]>>
                  /\ nextOid' = IF r.raised \/ r.reply.error
                                THEN nextOid ELSE nextOid + 1
                  /\ UNCHANGED threads
    /\ UNCHANGED <<evcount, script, pc, handles, snapshot, inlive, got>>

\* _t_order_create: the answer is handled, up to the mapping by ref
CreateAnswered ==
    /\ threads.create
    /\ sent # <<>>
    /\ ~sent[1].mapped
    /\ Step("create", order_mapped(S, sent[1]))
    /\ sent' = IF Answered(sent[1])
               THEN <<[sent[1] EXCEPT !.mapped = TRUE]>> ELSE <<>>
    /\ UNCHANGED <<nextOid, evcount, script, pc, handles, snapshot, inlive, got>>

\* _t_order_create: the mapping by id ends the round
CreateMapped ==
    /\ threads.create
    /\ sent # <<>>
    /\ sent[1].mapped
    /\ Step("create", order_mapped_rev(S, sent[1]))
    /\ sent' = <<>>
    /\ UNCHANGED <<nextOid, evcount, script, pc, handles, snapshot, inlive, got>>

CreateScripts ==
    {<<BuyCall(Mid, "Limit", 0, 0, TRUE)>>,
     <<BuyCall(Mid, "Market", 0, 0, TRUE), SellCall(Mid, "Limit", 0, 0, TRUE)>>}

InitCreate == Live /\ script \in CreateScripts

CreateTransaction == Receive(MaxCreateEvents)

NextCreate ==
    \/ Buy
    \/ Sell
    \/ CreateSend
    \/ CreateAnswered
    \/ CreateMapped
    \/ CreateTransaction

SpecCreate == InitCreate /\ [][NextCreate]_vars

(***************************************************************************)
(* Properties                                                              *)
(***************************************************************************)
Range(q) == {q[k] : k \in 1..Len(q)}
Terminal == {"Completed", "Canceled", "Rejected", "Expired"}

\* the pairs of order objects that are the two legs of one parent
LegPairs(o) ==
    {<<i, j>> \in (1..Len(o)) \X (1..Len(o)) :
        i # j /\ o[i].parent # 0 /\ o[i].parent = o[j].parent}

\* what a step appended to a queue that nothing was taken from
Appended(q, q2) == SubSeq(q2, Len(q) + 1, Len(q2))

C2_OcoCancelsEachOtherMemberOnce ==
    [][\A k \in DOMAIN ocol \ DOMAIN ocol' :
        LET new == Appended(q_orderclose, q_orderclose')
            n == Cardinality(Range(ocol[k]))
        IN (/\ \A m \in Range(ocol[k]) :
                    m \in DOMAIN orders /\ alive(ord[orders[m]])
            /\ Len(q_orderclose') >= Len(q_orderclose)
            /\ pc' = pc)
           => /\ Len(new) = n - 1
              /\ Cardinality(Range(new)) = Len(new)]_vars

\* notifications queued for the order with this ref
NotifCount(q, ref) == Cardinality({k \in 1..Len(q) : q[k].ref = ref})

\* C3: for every registered order that is not in status Submitted, submit
\* followed at once by submit again queues exactly one notification for that
\* order and leaves it Submitted; the second submit changes nothing at all.
C3_SubmitTwiceNotifiesOnce ==
    \A r \in DOMAIN orders :
        ord[orders[r]].status # "Submitted" =>
            LET a == _submit(S, r)
                b == _submit(a, r)
            IN /\ ~a.err
               /\ b = a
               /\ NotifCount(a.notifs, r) = NotifCount(notifs, r) + 1
               /\ a.ord[orders[r]].status = "Submitted"

\* C3 witness: two transactions were delivered, an order is Submitted and
\* the queue holds one notification for it
C3_Witness ==
    \E r \in DOMAIN orders :
        /\ evcount >= 2
        /\ ord[orders[r]].status = "Submitted"
        /\ NotifCount(notifs, r) = 1

\* the order object of a leg of primary p other than order t
OtherLeg(o, p, t) == CHOOSE j \in 1..Len(o) : o[j].parent = p /\ j # t

\* C4: a buy/sell call with transmit=false puts nothing on the creation
\* queue; the call for the take-profit leg with transmit=true, after the
\* primary and the stop leg were held back, puts exactly one command on it,
\* keyed by the primary's ref and carrying the primary's type and volume, the
\* price of the stop leg as stoploss, the price of the take-profit leg as
\* takeprofit and the three refs in its comment.
C4_TransmissionGate ==
    [][(pc' = pc + 1 /\ script[pc].op # "cancel") =>
        LET a == script[pc]
            new == Appended(q_ordercreate, q_ordercreate')
        IN IF ~a.transmit THEN q_ordercreate' = q_ordercreate
           ELSE IF a.parent = 0 THEN Len(new) = 1
           ELSE
               LET p == handles[a.parent]
                   tp == Len(ord')
                   sl == OtherLeg(ord', p, tp)
                   po == ord'[p]
               IN /\ Len(new) = 1
                  /\ new[1].oref = po.ref
                  /\ new[1].okwargs.actionType
                        = ORDEREXECS(po.exectype, po.ordtype)
                  /\ new[1].okwargs.volume = Abs(po.size)
                  /\ new[1].okwargs.stoploss = ord'[sl].price
                  /\ new[1].okwargs.takeprofit = ord'[tp].price
                  /\ new[1].okwargs.comment
                        = FormatComment(po.ref, ord'[sl].ref, ord'[tp].ref,
                              IF po.oco = 0 THEN 0 ELSE ord'[po.oco].ref)
                  /\ {ord'[k].ref : k \in {p, sl, tp}}
                        \cap {q_ordercreate[k].oref :
                                 k \in 1..Len(q_ordercreate)} = {}]_vars

\* C4 witness: the three calls of a bracket were made and the one command,
\* with stoploss and takeprofit, is on the creation queue
C4_Witness ==
    /\ pc > 3
    /\ Len(ord) = 3
    /\ Len(q_ordercreate) = 1
    /\ q_ordercreate[1].oref = ord[1].ref
    /\ q_ordercreate[1].okwargs.stoploss = ord[2].price
    /\ q_ordercreate[1].okwargs.takeprofit = ord[3].price
    /\ DOMAIN brackets = {ord[1].ref}

\* C5: a fill at price p reported for an order that is no longer alive and
\* heads a tracked bracket of a stop leg and a take-profit (limit) leg is
\* booked on the take-profit leg iff p >= its price (bracket of a buy) or
\* p <= its price (bracket of a sell), on the stop leg otherwise, and on no
\* other order.
C5_FillAttribution ==
    \A r \in DOMAIN orders : \A p \in Prices : \A filled \in BOOLEAN :
        LET i == orders[r]
            pref == ParentRef(S, i)
        IN (/\ ~alive(ord[i])
            /\ pref \in DOMAIN brackets
            /\ Len(brackets[pref]) >= 2) =>
            LET legs == Range(brackets[pref])
                tp == CHOOSE j \in legs : ord[j].exectype = "Limit"
                sl == CHOOSE j \in legs : ord[j].exectype = "Stop"
                toTp == IF ord[i].ordtype = "Buy"
                        THEN p >= ord[tp].price ELSE p <= ord[tp].price
                hit == IF toTp THEN tp ELSE sl
                size == IF filled THEN ord[hit].size ELSE 1
                a == _fill(S, r, 1, p, filled, FALSE)
            IN /\ a.ord[hit].exsize = ord[hit].exsize + size
               /\ \A j \in 1..Len(ord) :
                    j # hit => a.ord[j].exsize = ord[j].exsize
               /\ a.positions[Sym] = PosUpdate(positions[Sym], size, p)

\* C5 witness: the primary of a short bracket was filled, a second fill was
\* booked on its take-profit leg and the stop leg was canceled
C5_Witness ==
    \E ij \in LegPairs(ord) :
        /\ ord[ord[ij[1]].parent].ordtype = "Sell"
        /\ ord[ord[ij[1]].parent].status = "Completed"
        /\ ord[ij[1]].exectype = "Limit"
        /\ ord[ij[1]].status = "Completed"
        /\ ord[ij[2]].exectype = "Stop"
        /\ ord[ij[2]].status = "Canceled"
        /\ positions[Sym].size = 0

\* C6: when the feed goes live on a flat book and the snapshot is one
\* position of a subscribed instrument with a stop and a take-profit level
\* and the tag ref=a|sl=b|tp=c, reconciliation constructs exactly three
\* orders with refs a, b, c (the parent Completed at the position's size,
\* the Stop and Limit legs at the two levels, Submitted), leaves the bracket
\* <<stop, take-profit>> under key a, maps the position's remote id to a and
\* leaves the position at the snapshot's signed size and open price.
C6_ReconcileTaggedPosition ==
    [][(/\ rebuild /\ ~rebuild'
        /\ Len(snapshot.positions) = 1 /\ snapshot.orders = <<>>
        /\ positions[Sym].size = 0) =>
        LET p == snapshot.positions[1]
            n == Len(ord)
            size == IF p.type = "POSITION_TYPE_BUY" THEN p.volume ELSE -p.volume
        IN \A a, b, c \in 1..MaxRef :
            (/\ p.comment = FormatComment(a, b, c, 0)
             /\ p.symbol = Sym /\ p.stoploss > 0 /\ p.takeprofit > 0) =>
                /\ Len(ord') = n + 3
                /\ <<ord'[n + 1].ref, ord'[n + 2].ref, ord'[n + 3].ref>>
                        = <<a, b, c>>
                /\ ord'[n + 1].status = "Completed"
                /\ ord'[n + 1].exsize = size
                /\ ord'[n + 2].status = "Submitted"
                /\ ord'[n + 3].status = "Submitted"
                /\ ord'[n + 2].exectype = "Stop"
                /\ ord'[n + 2].price = p.stoploss
                /\ ord'[n + 3].exectype = "Limit"
                /\ ord'[n + 3].price = p.takeprofit
                /\ ord'[n + 2].size = -size /\ ord'[n + 3].size = -size
                /\ a \in DOMAIN brackets'
                /\ brackets'[a] = <<n + 2, n + 3>>
                /\ orders'[a] = n + 1 /\ orders'[b] = n + 2
                /\ orders'[c] = n + 3
                /\ o_ordersrev'[p.id] = a
                /\ positions'[Sym] = [size |-> size, price |-> p.open]]_vars

\* C6 witness: a short position tagged ref=5|sl=6|tp=7 was reconciled
C6_Witness ==
    /\ ~rebuild
    /\ snapshot.orders = <<>>
    /\ snapshot.positions # <<>>
    /\ snapshot.positions[1].comment = FormatComment(5, 6, 7, 0)
    /\ snapshot.positions[1].type = "POSITION_TYPE_SELL"
    /\ snapshot.positions[1].stoploss > 0
    /\ snapshot.positions[1].takeprofit > 0
    /\ 5 \in DOMAIN brackets
    /\ Len(brackets[5]) = 2
    /\ positions[Sym].size = -MaxVol

\* C7 as stated: an order whose status is Completed, Canceled, Rejected or
\* Expired keeps its status and its executed size in every later step.
C7_TerminalImmutable ==
    [][\A i \in 1..Len(ord) :
        ord[i].status \in Terminal =>
            /\ ord'[i].status = ord[i].status
            /\ ord'[i].exsize = ord[i].exsize]_vars

\* what C8 compares: statuses, bracket groups, oco groups, positions and
\* the notification queue
Observed(s) ==
    [status |-> [k \in 1..Len(s.ord) |-> s.ord[k].status],
     brackets |-> s.brackets, ocos |-> s.ocos, ocol |-> s.ocol,
     positions |-> s.positions, notifs |-> s.notifs]

\* C8 as stated: in every reachable state, delivering any transaction a
\* second time right after it was dispatched leaves statuses, bracket
\* groups, oco groups, positions and notifications as the first delivery
\* left them.
C8_DuplicateEventAbsorbed ==
    \A ev \in Events : \A due \in Dues(ev) : \A balfails \in BalFails(ev) :
        LET a == _transaction(S, ev, due, balfails)
            b == _transaction(a, ev, due, balfails)
        IN ~a.err => Observed(b) = Observed(a)

\* the fills a transaction can report for a registered order
FillSizes == (0 - MaxVol)..MaxVol

\* C9 as stated: every fill reported for a registered order that is not
\* alive and whose parent-or-self ref keys no bracket queues one store
\* notification and changes nothing else.
C9_DeadFillNotifiesOnce ==
    \A r \in DOMAIN orders : \A size \in FillSizes : \A p \in Prices :
        \A filled \in BOOLEAN : \A balfails \in BOOLEAN :
            (/\ ~alive(ord[orders[r]])
             /\ ParentRef(S, orders[r]) \notin DOMAIN brackets) =>
                _fill(S, r, size, p, filled, balfails)
                    = [S EXCEPT !.o_notifs = Append(@, "unknown_fill")]

\* C9 amended: such a fill, when it is final or reports a volume other than
\* zero, queues one store notification and changes nothing else (no
\* position, order, bracket, oco group, no cancel request, no BALANCE
\* request, no exception); a fill that is not final and reports volume zero
\* changes nothing at all and queues no notification.
C9_DeadFillDropped ==
    \A r \in DOMAIN orders : \A size \in FillSizes : \A p \in Prices :
        \A filled \in BOOLEAN : \A balfails \in BOOLEAN :
            (/\ ~alive(ord[orders[r]])
             /\ ParentRef(S, orders[r]) \notin DOMAIN brackets) =>
                _fill(S, r, size, p, filled, balfails)
                    = IF size = 0 /\ ~filled THEN S
                      ELSE [S EXCEPT !.o_notifs = Append(@, "unknown_fill")]

\* C9 witness: an order that heads no bracket is dead and a fill that was
\* delivered for it was reported to the store's notifications
C9_Witness ==
    /\ \E k \in 1..Len(o_notifs) : o_notifs[k] = "unknown_fill"
    /\ \E r \in DOMAIN o_orders :
            /\ ~alive(ord[orders[r]])
            /\ ParentRef(S, orders[r]) \notin DOMAIN brackets

\* C10 as stated: when the creation worker takes a command and the creation
\* fails (no remote id is handed out), the step queues one store
\* notification and leaves the order Rejected; the bracket keyed by the
\* order is removed with its other members Canceled, and every other
\* registered, not yet canceled member of its oco group gets a cancel
\* request.
C10_CreationFailureRejects ==
    [][(/\ q_ordercreate # <<>>
        /\ q_ordercreate' = Tail(q_ordercreate)
        /\ ~Head(q_ordercreate).stop
        /\ nextOid' = nextOid) =>
        LET r == Head(q_ordercreate).oref
            i == orders[r]
            group == Get(ocol, Get(ocos, r, r), <<>>)
        IN /\ Len(o_notifs') = Len(o_notifs) + 1
           /\ ord'[i].status = "Rejected"
           /\ r \notin DOMAIN brackets'
           /\ \A k \in Range(Get(brackets, r, <<>>)) \ {i} :
                ord'[k].status = "Canceled"
           /\ \A m \in Range(group) \ {r} :
                (m \in DOMAIN orders /\ ord[orders[m]].status # "Canceled")
                    => \E k \in 1..Len(q_orderclose') :
                        /\ k > Len(q_orderclose)
                        /\ q_orderclose'[k].oref = m]_vars

\* C11: buy, sell and cancel are fire-and-forget.  A call of the strategy
\* leaves every existing order, the position ledger and both notification
\* queues as they were.  A transmitting buy or sell appends exactly one
\* creation command, keyed by the order itself or by its parent; a buy or
\* sell held back appends none.  cancel of a registered order that is not
\* Canceled appends exactly one cancellation command naming that order.
C11_FireAndForget ==
    [][pc' = pc + 1 =>
        LET a == script[pc]
            n == Len(ord') IN
        /\ \A i \in DOMAIN ord : ord'[i] = ord[i]
        /\ positions' = positions
        /\ notifs' = notifs
        /\ o_notifs' = o_notifs
        /\ a.op \in {"buy", "sell"} =>
            /\ n = Len(ord) + 1
            /\ ord'[n].status = "Created"
            /\ q_orderclose' = q_orderclose
            /\ IF a.transmit
               THEN /\ SubSeq(q_ordercreate', 1, Len(q_ordercreate)) = q_ordercreate
                    /\ Len(q_ordercreate') = Len(q_ordercreate) + 1
                    /\ q_ordercreate'[Len(q_ordercreate')].oref
                        = ParentRef([ord |-> ord'], n)
               ELSE q_ordercreate' = q_ordercreate
        /\ a.op = "cancel" =>
            LET i == Arg(a.target) IN
            /\ ord' = ord
            /\ q_ordercreate' = q_ordercreate
            /\ IF ord[i].ref \in DOMAIN orders /\ ord[i].status # "Canceled"
               THEN q_orderclose' = Append(q_orderclose,
                        [stop |-> FALSE, oref |-> ord[i].ref])
               ELSE q_orderclose' = q_orderclose]_vars

\* the strategy has canceled a registered order after the terminal reported
\* on it: the command waits in the queue, the order is as the event left it
C11_Witness ==
    /\ pc = Len(script) + 1
    /\ script[Len(script)].op = "cancel"
    /\ q_orderclose # <<>>
    /\ \E i \in DOMAIN ord :
        /\ q_orderclose[Len(q_orderclose)].oref = ord[i].ref
        /\ ord[i].status = "Accepted"
    /\ q_ordercreate = <<>>
    /\ notifs # <<>>

\* C12: every command on the creation queue is keyed by an order that has
\* no parent; an order with a parent never gets a creation command of its
\* own.
C12_CommandsKeyedByPrimary ==
    \A k \in 1..Len(q_ordercreate) :
        ~q_ordercreate[k].stop =>
            \A i \in DOMAIN ord :
                ord[i].ref = q_ordercreate[k].oref => ord[i].parent = 0

\* what broker and store keep about orders and positions
Registries ==
    <<ord, orders, brackets, opending, ocos, ocol, notifs, positions,
      o_orders, o_ordersrev, o_orders_type>>

\* C13: reconciliation runs exactly once, in the first live(), and it has
\* completed before any event of the terminal is applied: an event changes
\* the registries only when rebuild is off, rebuild goes off once and stays
\* off, and a later live() changes nothing.
C13_ReconcileOnceBeforeEvents ==
    [][/\ (evcount' # evcount /\ Registries' # Registries) => ~rebuild
       /\ rebuild' # rebuild => rebuild /\ ~rebuild'
       /\ ~rebuild =>
            \A fails \in {"none", "positions", "orders"} :
                live(S, snapshot, fails) = S]_vars

\* C16: access to the registries is serialized.  While the main thread is
\* inside reconciliation no other thread changes a registry: a step taken
\* there either leaves the registries alone or is the main thread's own,
\* which ends the reconciliation.
C16_RegistriesSerialized ==
    [][inlive = "orders" =>
        \/ Registries' = Registries
        \/ inlive' = "idle"]_vars

\* C14: after reconciliation no two order records share a ref, whether the
\* ref came from a tag, from the reseeded counter or from a later buy or
\* sell, and every record the registry was given is still the one it holds.
C14_RefsDistinct ==
    ~rebuild =>
        /\ \A i, j \in DOMAIN ord : i # j => ord[i].ref # ord[j].ref
        /\ \A i \in DOMAIN ord :
            ord[i].ref \in DOMAIN orders => orders[ord[i].ref] = i

\* the handler has told the store's notification queue and has not raised
Surfaced(s, a) == ~a.err /\ Len(a.o_notifs) > Len(s.o_notifs)

\* C15: a remote call that fails in transport is surfaced as a store
\* notification and is not fatal, for each of the five kinds of call: the
\* creation request of the command in front, the cancellation request for
\* an acknowledged order, the balance request, the two snapshot requests of
\* reconciliation, and the receive on the event stream, which must leave
\* the event thread running.
C15_TransportFailureSurfaced ==
    [][/\ (q_ordercreate # <<>> /\ ~Head(q_ordercreate).stop) =>
            Surfaced(S, order_created(S,
                [oref |-> Head(q_ordercreate).oref,
                 actionType |-> Head(q_ordercreate).okwargs.actionType,
                 raised |-> TRUE, reply |-> [error |-> TRUE]]))
       /\ \A r \in DOMAIN o_orders \cap DOMAIN orders :
            Surfaced(S, order_canceled(S, r, TRUE))
       /\ Surfaced(S, get_balance(S, TRUE))
       /\ \A fails \in {"positions", "orders"} :
            Surfaced(S, rebuild_environement(S, snapshot, fails))
       /\ evcount' = evcount => threads'.events = threads.events]_vars

\* a command that still waits in front of the end-of-thread signal
Stranded(q) ==
    \E j, k \in 1..Len(q) : j < k /\ ~q[j].stop /\ q[k].stop

\* C17: shutdown of the command workers.  A worker takes its commands from
\* the front of its queue, one at a time; when it has ended, no command put
\* before the end-of-thread signal is left unprocessed, and nothing is taken
\* from its queue any more.
C17_DrainedBeforeTermination ==
    [][/\ ~threads'.create => ~Stranded(q_ordercreate')
       /\ ~threads'.cancel => ~Stranded(q_orderclose')
       /\ ~threads.create =>
            SubSeq(q_ordercreate', 1, Len(q_ordercreate)) = q_ordercreate
       /\ ~threads.cancel =>
            SubSeq(q_orderclose', 1, Len(q_orderclose)) = q_orderclose
       /\ Len(q_ordercreate') < Len(q_ordercreate) =>
            q_ordercreate' = Tail(q_ordercreate)
       /\ Len(q_orderclose') < Len(q_orderclose) =>
            q_orderclose' = Tail(q_orderclose)]_vars

\* the main thread is about to make the call op
AtCall(op) == threads.strategy /\ pc <= Len(script) /\ script[pc].op = op

\* C18: the broker's notification queue is first-in first-out.
\* get_notification never blocks; it returns none and leaves the queue
\* alone when the queue is empty, and otherwise returns the oldest entry and
\* removes it.  next() appends exactly one boundary mark.  Every other step
\* only appends: an entry once queued stays as it was notified, whatever
\* happens to its order later.
C18_NotificationFifo ==
    [][/\ AtCall("get_notification") => ENABLED GetNotification
       /\ IF AtCall("get_notification") /\ pc' = pc + 1
          THEN IF notifs = <<>>
               THEN got' = Append(got, Mark) /\ notifs' = notifs
               ELSE got' = Append(got, Head(notifs)) /\ notifs' = Tail(notifs)
          ELSE /\ got' = got
               /\ SubSeq(notifs', 1, Len(notifs)) = notifs
               /\ \A k \in (Len(notifs) + 1)..Len(notifs') :
                    \/ notifs'[k] = Mark /\ AtCall("next")
                    \/ \E i \in DOMAIN ord' : notifs'[k].ref = ord'[i].ref
       /\ AtCall("next") /\ pc' = pc + 1 => notifs' = Append(notifs, Mark)]_vars

\* the engine has fetched a mark and the Submitted snapshot of an order that
\* has moved on since, with more notifications waiting
C18_Witness ==
    /\ \E k \in 1..Len(got) : got[k] = Mark
    /\ \E k \in 1..Len(got), i \in DOMAIN ord :
        /\ got[k].ref = ord[i].ref
        /\ got[k].status = "Submitted"
        /\ ord[i].status = "Completed"
    /\ Len(notifs) >= 2

\* the store has no request type for this kind and side of order
Unsupported(o) == ORDEREXECS(o.exectype, o.ordtype) = None

Flat == [size |-> 0, price |-> 0]

\* the registered, alive orders whose complete fill would close the position
Closers ==
    {r \in DOMAIN orders :
        /\ alive(ord[orders[r]])
        /\ positions[Sym].size # 0
        /\ ord[orders[r]].size = -positions[Sym].size}

\* C20 as stated: a fill of +s at p1 followed by a fill of -s at p2 leaves
\* a net position of 0, and with p2 > p1 the closing fill reports a
\* positive realized gain.
C20_RoundTripReportsGain ==
    \A r \in Closers, p2 \in Prices :
        LET a == _fill(S, r, 0, p2, TRUE, FALSE) IN
        /\ a.positions[Sym].size = 0
        /\ (positions[Sym].size > 0 /\ p2 > positions[Sym].price)
            => a.ord[orders[r]].pnl > 0

\* C20 as the code has it: a fill of +s followed by a fill of -s leaves the
\* position flat, size 0 and price 0, and the profit and loss handed to the
\* closing order is 0 at every pair of prices, as it is for every order at
\* all times: no realized gain is computed.
C20_RoundTripFlatNoGain ==
    [][/\ \A i \in DOMAIN ord : ord[i].pnl = 0
       /\ \A r \in Closers, p2 \in Prices :
            LET a == _fill(S, r, 0, p2, TRUE, FALSE) IN
            a.positions[Sym] = Flat /\ a.ord[orders[r]].pnl = 0
       /\ \A i \in DOMAIN ord :
            (/\ positions[Sym].size # 0
             /\ ord'[i].exsize - ord[i].exsize = -positions[Sym].size)
            => positions'[Sym] = Flat /\ ord'[i].pnl = 0]_vars

\* a long bracket has been opened and closed again by its take-profit leg
C20_Witness ==
    /\ positions[Sym] = Flat
    /\ \E i, j \in DOMAIN ord :
        /\ ord[i].status = "Completed" /\ ord[i].exsize = MaxVol
        /\ ord[j].status = "Completed" /\ ord[j].exsize = -MaxVol
        /\ ord[j].parent = i
        /\ ord[j].exectype = "Limit"
        /\ ord[j].price > ord[i].price
        /\ ord[j].pnl = 0

\* the registered, alive orders the terminal has acknowledged
AliveAcked ==
    {r \in DOMAIN orders \cap DOMAIN o_orders : alive(ord[orders[r]])}

\* C21: a fill that leaves a remainder marks the order Partial, queues one
\* notification and does nothing else: no exception of the guard of
\* _ococheck, no change to brackets, oco groups or the cancellation queue,
\* no change to any other order.
C21_PartialFillOnlyMarks ==
    \A r \in AliveAcked, p \in Prices :
        LET i == orders[r]
            sz == IF ord[i].remsize > 0 THEN 1 ELSE -1
            a == _fill(S, r, sz, p, FALSE, FALSE) IN
        ord[i].remsize \notin {sz, 0} =>
            /\ ~a.err
            /\ a.ord[i].status = "Partial"
            /\ a.notifs = Append(notifs, [ref |-> r, status |-> "Partial"])
            /\ a.brackets = brackets
            /\ a.ocos = ocos
            /\ a.ocol = ocol
            /\ a.q_orderclose = q_orderclose
            /\ \A j \in DOMAIN ord : j # i => a.ord[j] = ord[j]

\* C22: a submit applied to an order that is Accepted or Partial, and an
\* accept applied to an order that is Accepted, is a silent no-op: nothing
\* at all changes.
C22_LateSubmitAcceptNoOp ==
    \A r \in DOMAIN orders :
        LET st == ord[orders[r]].status IN
        /\ st \in {"Accepted", "Partial"} => _submit(S, r) = S
        /\ st = "Accepted" => _accept(S, r) = S

\* C23: when the primary of a bracket group of three completes, the group
\* stays in the tracker under the primary's ref with the stop leg and the
\* take-profit leg, in this order; both legs are activated, neither changes
\* status, both stay alive.
C23_PrimaryFillKeepsLegs ==
    [][\A r \in DOMAIN brackets :
        LET br == brackets[r] IN
        (/\ Len(br) = 3
         /\ ord[br[1]].ref = r
         /\ ord[br[1]].status # "Completed"
         /\ ord'[br[1]].status = "Completed")
        => /\ r \in DOMAIN brackets'
           /\ brackets'[r] = <<br[2], br[3]>>
           /\ \A k \in {2, 3} :
                /\ ord'[br[k]].active
                /\ ord'[br[k]].status = ord[br[k]].status
                /\ alive(ord'[br[k]])]_vars

\* the primary of a short bracket is filled, its two buy legs wait
C23_Witness ==
    \E r \in DOMAIN brackets :
        /\ Len(brackets[r]) = 2
        /\ orders[r] \notin Range(brackets[r])
        /\ ord[orders[r]].status = "Completed"
        /\ ord[orders[r]].ordtype = "Sell"
        /\ \A k \in {1, 2} :
            /\ ord[brackets[r][k]].parent = orders[r]
            /\ ord[brackets[r][k]].active
            /\ alive(ord[brackets[r][k]])
        /\ ord[brackets[r][1]].exectype = "Stop"
        /\ ord[brackets[r][2]].exectype = "Limit"

\* the orders of the bracket group that order r belongs to
Members(r) == Range(brackets[ParentRef([ord |-> ord], orders[r])])

\* the registered orders that are members of a tracked bracket group
Tracked ==
    {r \in DOMAIN orders :
        /\ ParentRef([ord |-> ord], orders[r]) \in DOMAIN brackets
        /\ orders[r] \in Members(r)}

CanceledCount(q, ref) ==
    Cardinality({k \in 1..Len(q) : q[k].ref = ref /\ q[k].status = "Canceled"})

\* what a cancel, reject or expiry of member r must leave behind in a
Resolved(r, a) ==
    /\ ~a.err
    /\ ParentRef([ord |-> ord], orders[r]) \notin DOMAIN a.brackets
    /\ \A j \in Members(r) \ {orders[r]} :
        IF alive(ord[j])
        THEN /\ a.ord[j].status = "Canceled"
             /\ CanceledCount(a.notifs, ord[j].ref)
                    = CanceledCount(notifs, ord[j].ref) + 1
        ELSE /\ a.ord[j] = ord[j]
             /\ NotifCount(a.notifs, ord[j].ref) = NotifCount(notifs, ord[j].ref)

\* C24: when a member of a tracked bracket group is canceled, rejected or
\* expires, every other member that is alive becomes Canceled and is
\* notified as Canceled exactly once, a member that is not alive is left as
\* it is, and the group leaves the tracker.
C24_GroupCancellation ==
    \A r \in Tracked :
        /\ ord[orders[r]].status # "Canceled" => Resolved(r, _cancel(S, r))
        /\ Resolved(r, _reject(S, r))
        /\ \A due \in BOOLEAN : Resolved(r, _expire(S, r, due))

\* the primary of a bracket has expired; its legs were canceled, each with
\* one notification, and the group is gone
C24_Witness ==
    \E i \in DOMAIN ord :
        /\ ord[i].status = "Expired"
        /\ ord[i].ref \notin DOMAIN brackets
        /\ \E j, k \in DOMAIN ord :
            /\ j # k
            /\ ord[j].parent = i /\ ord[k].parent = i
            /\ ord[j].status = "Canceled" /\ ord[k].status = "Canceled"
            /\ CanceledCount(notifs, ord[j].ref) = 1
            /\ CanceledCount(notifs, ord[k].ref) = 1

Declarers(k) ==
    {ord[i].ref : i \in {j \in DOMAIN ord :
                            ord[j].oco # 0 /\ ord[ord[j].oco].ref = k}}

\* C26: the member list kept under an oco key holds the partner itself and
\* orders that named that partner, and no ref twice.
C26_OcoMembersOnce ==
    \A k \in DOMAIN ocol :
        LET l == ocol[k] IN
        /\ \A a, b \in 1..Len(l) : a # b => l[a] # l[b]
        /\ k \in Range(l)
        /\ Range(l) \subseteq {k} \cup Declarers(k)

\* C27: every member of the list kept under an oco key k resolves to k
\* through the reverse mapping, a missing entry standing for the member
\* itself; this is what lets a terminal event on any member find the group.
C27_OcoReverseMapping ==
    \A k \in DOMAIN ocol :
        \A m \in Range(ocol[k]) : Get(ocos, m, m) = k

\* the cancel commands queued for the order ref
CancelCommands(q, ref) ==
    Cardinality({k \in 1..Len(q) : ~q[k].stop /\ q[k].oref = ref})

\* the pending order of the snapshot is one rebuild_orders rebuilds
Rebuildable(o) ==
    /\ o.state \in {"ORDER_STATE_STARTED", "ORDER_STATE_PLACED",
                    "ORDER_STATE_PARTIAL"}
    /\ o.symbol \in Datas
    /\ K_oco \in DOMAIN ParseComment(o.comment)

\* b is the broker when rebuild_orders starts, a when it has ended; the
\* rebuilt order is the next order object, p the partner its tag declares
OcoRebuilt(b, a, p) ==
    LET i == Len(b.ord) + 1
        ref == a.ord[i].ref
    IN /\ ~a.err
       /\ IF p \notin DOMAIN b.orders \/ ~alive(b.ord[Get(b.orders, p, 1)])
          THEN CancelCommands(a.q_orderclose, ref) = 1
          ELSE /\ CancelCommands(a.q_orderclose, ref) = 0
               /\ Get(a.ocos, ref, ref) = p
               /\ ref \in Range(Get(a.ocol, p, <<>>))

\* C28: in reconciliation a pending order whose tag declares an oco partner
\* gets a cancel command when the partner is not registered or is registered
\* and no longer alive, and is linked into the partner's group, without a
\* cancel command, when the partner is registered and alive.
C28_RebuildOcoPartner ==
    (rebuild /\ snapshot.orders # <<>> /\ Rebuildable(snapshot.orders[1])
        /\ ~rebuild_positions(S, snapshot.positions).err)
    => OcoRebuilt(rebuild_positions(S, snapshot.positions),
                  rebuild_orders(rebuild_positions(S, snapshot.positions),
                                 snapshot.orders),
                  ParseComment(snapshot.orders[1].comment)[K_oco])

\* reconciliation has ended and the rebuilt order, whose partner was
\* registered and complete, has a cancel command queued
C28_Witness ==
    /\ ~rebuild
    /\ snapshot.orders # <<>>
    /\ Rebuildable(snapshot.orders[1])
    /\ 5 \in DOMAIN orders
    /\ ~alive(ord[orders[5]])
    /\ 8 \in DOMAIN orders
    /\ CancelCommands(q_orderclose, 8) = 1

\* the Submitted notifications for the order ref in the queue q
SubmittedCount(q, ref) ==
    Cardinality({k \in 1..Len(q) : q[k].ref = ref /\ q[k].status = "Submitted"})

\* C29: every order reconciliation synthesizes, parent or protective leg, of
\* a position or of a pending order, is submitted once while reconciliation
\* runs: the step queues one Submitted notification for each of them.
C29_SynthesizedSubmittedOnce ==
    [][(rebuild /\ pc' = pc /\ evcount' = evcount /\ Len(ord') > Len(ord))
        => \A i \in (Len(ord) + 1)..Len(ord') :
               SubmittedCount(Appended(notifs, notifs'), ord'[i].ref) = 1]_vars

\* reconciliation has rebuilt the position with its two legs and the pending
\* order, and each of the four has its Submitted notification
C29_Witness ==
    /\ ~rebuild
    /\ Len(ord) >= 4
    /\ \A r \in {5, 6, 7, 8} :
        r \in DOMAIN orders /\ SubmittedCount(notifs, r) = 1

\* the remote ids the terminal has assigned to local orders, each with the
\* ref of its order: the ids mapped, and the id in the answer the creation
\* worker holds
Assigned ==
    {<<oid, o_ordersrev[oid]>> : oid \in DOMAIN o_ordersrev}
    \cup {<<c.reply.order, c.oref>> : c \in {x \in Range(sent) : Answered(x)}}

\* C30: a transaction keyed by a remote id the terminal has assigned to a
\* local order is dispatched to that order, whether or not the creation
\* worker has recorded the id yet.
C30_AssignedEventApplied ==
    \A pr \in Assigned :
        \A ev \in {e \in Events : e.order = pr[1]} :
            \A due \in Dues(ev), balfails \in BalFails(ev) :
                _transaction(S, ev, due, balfails)
                    = _process_order(S, pr[2], ev.order_state, EvSize(ev),
                                     ev.price, due, balfails)

\* the creation command of the order ref waits in the queue or is held by
\* the creation worker
Outstanding(ref) ==
    \/ \E k \in 1..Len(q_ordercreate) :
        ~q_ordercreate[k].stop /\ q_ordercreate[k].oref = ref
    \/ \E k \in 1..Len(sent) : sent[k].oref = ref /\ ~sent[k].mapped

\* C31: a cancel command for a registered alive order is not lost to the
\* order of the two workers: the cancellation worker takes the command off
\* its queue only when the remote id is recorded, never while the creation
\* of the order is still outstanding, so that the remote request follows
\* the acknowledgement.
C31_CancelSurvivesCreation ==
    [][(/\ q_orderclose # <<>>
        /\ q_orderclose' = Tail(q_orderclose)
        /\ ~Head(q_orderclose).stop
        /\ Head(q_orderclose).oref \in DOMAIN orders
        /\ alive(ord[orders[Head(q_orderclose).oref]])
        /\ Outstanding(Head(q_orderclose).oref))
        => Head(q_orderclose).oref \in DOMAIN o_orders]_vars

\* the snapshot entry carries a stop-loss or a take-profit, not both
OneLevel(e) == (e.stoploss > 0) # (e.takeprofit > 0)

\* the protective orders synthesized between b and a are alive and members
\* of a tracked bracket, and there is one
LegsKept(b, a) ==
    /\ ~a.err
    /\ \E i \in (Len(b.ord) + 1)..Len(a.ord) : a.ord[i].parent # 0
    /\ \A i \in (Len(b.ord) + 1)..Len(a.ord) :
        a.ord[i].parent # 0
        => /\ alive(a.ord[i])
           /\ \E k \in DOMAIN a.brackets : i \in Range(a.brackets[k])

\* C32: reconciling a position that carries exactly one protective level
\* leaves the synthesized protective order alive and tracked; completing the
\* synthesized parent does not cancel it.
C32_SingleLevelLegKept ==
    (/\ rebuild
     /\ snapshot.positions # <<>>
     /\ snapshot.positions[1].symbol \in Datas
     /\ OneLevel(snapshot.positions[1]))
    => LegsKept(S, rebuild_positions(S, snapshot.positions))

\* what the fill that took the ledger from s to a added to the position
LedgerDelta(s, a) == a.positions[Sym].size - s.positions[Sym].size

\* the final fill of order object i adds what the earlier fills left open
FinalFillsRemainder(s, a, i) ==
    /\ ~a.err
    /\ a.ord[i].status = "Completed"
    /\ LedgerDelta(s, a) = s.ord[i].remsize
    /\ a.ord[i].exsize = s.ord[i].size

DeclaresListed(os) ==
    {k \in 1..Len(os) :
        /\ Rebuildable(os[k])
        /\ \E j \in 1..Len(os) :
            /\ j # k
            /\ os[j].state \in {"ORDER_STATE_STARTED", "ORDER_STATE_PLACED",
                                "ORDER_STATE_PARTIAL"}
            /\ os[j].symbol \in Datas
            /\ K_ref \in DOMAIN ParseComment(os[j].comment)
            /\ ParseComment(os[j].comment)[K_ref]
                 = ParseComment(os[k].comment)[K_oco]}

\* no cancel command is queued in a for a declaring entry of os
DeclarersSpared(os, a) ==
    /\ ~a.err
    /\ \A k \in DeclaresListed(os) :
        CancelCommands(a.q_orderclose, ParseComment(os[k].comment)[K_ref]) = 0

\* C34: order reconciliation does not cancel a snapshot order whose declared
\* oco partner is in the same snapshot and still working, whether the partner
\* is listed before the order or after it.
C34_OcoListOrderIrrelevant ==
    (rebuild /\ q_orderclose = <<>>)
    => DeclarersSpared(snapshot.orders,
                       rebuild_orders(rebuild_positions(S, snapshot.positions),
                                      snapshot.orders))

\* the transactions whose order id and position id match no recorded remote
\* id, for an instrument with a data feed or without one
Foreign ==
    {e \in Events \cup {[x EXCEPT !.symbol = "GBPUSD"] : x \in Events} :
        e.order \notin Values(o_orders) /\ e.position \notin Values(o_orders)}

\* a is s with the cancel flag cleared and at most one external fill of
\* the signed volume size: a new order object, no registry touched
ExternalFillOnly(s, a, size) ==
    /\ ~a.err
    /\ ~a.cancel_flag
    /\ a.orders = s.orders /\ a.brackets = s.brackets
    /\ a.ocos = s.ocos /\ a.ocol = s.ocol /\ a.opending = s.opending
    /\ Len(a.ord) \in {Len(s.ord), Len(s.ord) + 1}
    /\ SubSeq(a.ord, 1, Len(s.ord)) = s.ord
    /\ LedgerDelta(s, a) = IF Len(a.ord) > Len(s.ord) THEN size ELSE 0

ForeignHandled(ev, a) ==
    IF cancel_flag /\ ev.type = "TRADE_TRANSACTION_ORDER_ADD"
    THEN ExternalFillOnly(S, a, EvSize(ev))
    ELSE a = S

\* C35: a transaction that matches no recorded remote id changes nothing
\* unless the cancel flag is set and it is an ORDER_ADD; then the flag is
\* cleared and at most one external fill of its signed volume is booked.
\* The flag is raised by a remote cancel or close that went through only, so
\* every external fill follows one since the fill before.
C35_ForeignTransaction ==
    /\ [](\A ev \in Foreign : \A balfails \in BalFails(ev) :
            ForeignHandled(ev, _transaction(S, ev, FALSE, balfails)))
    /\ [][/\ Len(ord') > Len(ord) /\ evcount' = evcount + 1
             => cancel_flag /\ ~cancel_flag'
          /\ cancel_flag' /\ ~cancel_flag
             => /\ q_orderclose # <<>>
                /\ q_orderclose' = Tail(q_orderclose)
                /\ ~Head(q_orderclose).stop
                /\ Head(q_orderclose).oref \in DOMAIN o_orders
                /\ o_notifs' = o_notifs]_vars

\* a cancellation went through and the transaction of a foreign order was
\* booked as an external fill since
C35_Witness ==
    /\ ~cancel_flag
    /\ q_orderclose = <<>>
    /\ pc > Len(script)
    /\ \E i \in DOMAIN ord :
        /\ i \notin Range(handles)
        /\ ord[i].status = "Completed"
        /\ positions[Sym].size = ord[i].exsize

\* the members of the bracket kept under key k, as order objects
GroupSize(k) == Len(brackets[k]) \in {2, 3}
GroupRegistered(k) ==
    \A i \in Range(brackets[k]) :
        ord[i].ref \in DOMAIN orders /\ orders[ord[i].ref] = i
GroupAlive(k) == \A i \in Range(brackets[k]) : alive(ord[i])
GroupParented(k) ==
    \A i \in Range(brackets[k]) :
        ord[i].ref # k => (ord[i].parent # 0 /\ ord[ord[i].parent].ref = k)

\* C36: every tracked bracket group has two or three members, each of them
\* registered under its own ref and alive, and each member other than the
\* primary has the key of the group as the ref of its parent.
C36_BracketGroupsWellFormed ==
    \A k \in DOMAIN brackets :
        GroupSize(k) /\ GroupRegistered(k) /\ GroupAlive(k) /\ GroupParented(k)

\* the map by ref followed by the map by id leads back, and the other way
RevOfOrders ==
    \A r \in DOMAIN o_orders :
        o_orders[r] \in DOMAIN o_ordersrev /\ o_ordersrev[o_orders[r]] = r
OrdersOfRev ==
    \A i \in DOMAIN o_ordersrev :
        o_ordersrev[i] \in DOMAIN o_orders /\ o_orders[o_ordersrev[i]] = i

\* every order object whose ref has a remote id recorded has no parent
OnlyPrimariesMapped ==
    \A i \in DOMAIN ord : ord[i].ref \in DOMAIN o_orders => ord[i].parent = 0

\* C37: the store's maps from ref to remote id and from remote id to ref are
\* inverses of each other, and a remote id is recorded for orders without a
\* parent only, never for a protective leg.
C37_IdMapsInverse == RevOfOrders /\ OrdersOfRev /\ OnlyPrimariesMapped

\* one call took the broker from s to a: every registered order was left
\* as it was and not notified, or was not in status st, is now, and has one
\* notification; nothing else was notified and no order object was made
PropagatedOnce(s, a, st) ==
    /\ Len(a.ord) = Len(s.ord)
    /\ \A k \in (Len(s.notifs) + 1)..Len(a.notifs) :
        a.notifs[k].status = st /\ a.notifs[k].ref \in DOMAIN s.orders
    /\ \A r \in DOMAIN s.orders :
        LET i == s.orders[r] IN
        \/ /\ a.ord[i] = s.ord[i]
           /\ NotifCount(Appended(s.notifs, a.notifs), r) = 0
        \/ /\ s.ord[i].status # st
           /\ a.ord[i] = [s.ord[i] EXCEPT !.status = st]
           /\ NotifCount(Appended(s.notifs, a.notifs), r) = 1

\* C38: submit and accept, called for any registered order, come to an end
\* through the bracket tracker as it is, and change the status of and notify
\* every order at most once.
C38_PropagationOnce ==
    \A r \in DOMAIN orders :
        /\ PropagatedOnce(S, _submit(S, r), "Submitted")
        /\ PropagatedOnce(S, _accept(S, r), "Accepted")

\* the terminal's ORDER_STATE_PLACED for the primary of a tracked bracket of
\* three has been propagated: primary and both legs are Accepted, each
\* notified once
C38_Witness ==
    \E k \in DOMAIN brackets :
        /\ Len(brackets[k]) = 3
        /\ \A i \in Range(brackets[k]) :
            /\ ord[i].status = "Accepted"
            /\ Cardinality({n \in 1..Len(notifs) :
                   notifs[n] = [ref |-> ord[i].ref, status |-> "Accepted"]}) = 1

====
